---- MODULE Spec2Model ----
(***************************************************************************)
(* LPERFECT: Lagrangian particle routing of SCS-CN runoff on a D8 grid,    *)
(* decomposed in row slabs over N workers.                                 *)
(*                                                                         *)
(* Real numbers (float64 in the source) are modelled in exact arithmetic   *)
(* as normalised rationals <<numerator, denominator>>, denominator > 0.    *)
(* Non-finite floats have denominator 0: NaN, PosInf, NegInf.              *)
(***************************************************************************)
EXTENDS Integers, Sequences, FiniteSets, TLC

(***************************************************************************)
(* Bounds of the model.                                                    *)
(***************************************************************************)
\* Largest worker count simulated (every N in 1..MaxWorkers runs side by side).
MaxWorkers == 4
\* Steps of the driver loop per run.
MaxSteps == 9
\* Steps of the runs on the 3x2 grids.
GSteps == 5
\* Steps a single cell is followed through (SpecSCS).
SCSSteps == 3
\* Workers of the group whose phases are followed one by one (SpecGroup).
GroupSize == 3
\* Steps of the group.
GroupSteps == 2
\* Steps of the rainfall acquisition.
RainSteps == 3
\* Largest row count and worker count the slab decomposition is applied to.
MaxRows == 9
MaxRanks == 5
\* Largest shape of the direction rasters the index is built from.
MaxD8Rows == 2
MaxD8Cols == 2
\* Largest number of calls made on the rainfall file cache.
MaxCacheCalls == 5
\* Largest container advected and largest number of advect calls on it.
MaxParticles == 3
AdvectCalls == 2

(***************************************************************************)
(* Exact arithmetic.                                                       *)
(***************************************************************************)
Abs(x) == IF x < 0 THEN -x ELSE x

RECURSIVE GCD(_, _)
GCD(a, b) == IF b = 0 THEN a ELSE GCD(b, a % b)

\* The rational n/d in lowest terms with a positive denominator.
Norm(n, d) ==
    LET g == GCD(Abs(n), Abs(d))
        s == IF d < 0 THEN -1 ELSE 1
    IN  <<s * (n \div g), s * (d \div g)>>

R(n) == <<n, 1>>
Zero == <<0, 1>>

RAdd(x, y) ==
    LET g == GCD(x[2], y[2])
        l == (x[2] \div g) * y[2]
    IN  IF x[1] = 0 THEN y
        ELSE IF y[1] = 0 THEN x
        ELSE IF x[2] = 1 /\ y[2] = 1 THEN <<x[1] + y[1], 1>>
        ELSE Norm(x[1] * (l \div x[2]) + y[1] * (l \div y[2]), l)

RNeg(x) == <<-x[1], x[2]>>

RSub(x, y) == RAdd(x, RNeg(y))

RMul(x, y) ==
    LET g1 == GCD(Abs(x[1]), y[2])
        g2 == GCD(Abs(y[1]), x[2])
    IN  IF x[1] = 0 \/ y[1] = 0 THEN Zero
        ELSE Norm((x[1] \div g1) * (y[1] \div g2), (x[2] \div g2) * (y[2] \div g1))

\* x / y for y # 0.
RDiv(x, y) == RMul(x, Norm(y[2], y[1]))

RLt(x, y) ==
    IF x[2] = y[2] THEN x[1] < y[1]
    ELSE IF x[1] = 0 THEN y[1] > 0
    ELSE IF y[1] = 0 THEN x[1] < 0
    ELSE RSub(x, y)[1] < 0

RLe(x, y) == ~RLt(y, x)
RMax(x, y) == IF RLe(x, y) THEN y ELSE x

\* numpy.round: round half to even.
RoundHalfEven(x) ==
    LET q == x[1] \div x[2]
        m == x[1] % x[2]
    IN  IF 2 * m < x[2] THEN q
        ELSE IF 2 * m > x[2] THEN q + 1
        ELSE IF q % 2 = 0 THEN q ELSE q + 1

\* ndarray.astype(int32) of a float64: truncate toward zero (every integer of
\* the model lies within 32 bits, so no wrap-around arises).
AsInt32(x) == IF x[1] >= 0 THEN x[1] \div x[2] ELSE -((-x[1]) \div x[2])

\* np.isfinite.
NaN == <<0, 0>>
PosInf == <<1, 0>>
NegInf == <<-1, 0>>
IsFinite(x) == x[2] # 0

\* The sum of s[lo..hi], by halves.
RECURSIVE RSumIn(_, _, _)
RSumIn(s, lo, hi) ==
    IF lo > hi THEN Zero
    ELSE IF lo = hi THEN s[lo]
    ELSE RAdd(RSumIn(s, lo, (lo + hi) \div 2), RSumIn(s, ((lo + hi) \div 2) + 1, hi))

RSum(s) == RSumIn(s, 1, Len(s))

\* The concatenation of the sequences ss[lo..hi], in order, by halves.
RECURSIVE ConcatIn(_, _, _)
ConcatIn(ss, lo, hi) ==
    IF lo > hi THEN <<>>
    ELSE IF lo = hi THEN ss[lo]
    ELSE ConcatIn(ss, lo, (lo + hi) \div 2) \o ConcatIn(ss, ((lo + hi) \div 2) + 1, hi)

Concat(ss) == ConcatIn(ss, 1, Len(ss))

(***************************************************************************)
(* numpy indexing helpers.                                                 *)
(***************************************************************************)
\* np.nonzero(mask)[0] for a 1-D boolean mask: the indices that are set, ascending.
NonZero(m) == Concat([i \in 1..Len(m) |-> IF m[i] THEN <<i>> ELSE <<>>])

\* a[idx] for an index array idx.
Take(a, idx) == [i \in 1..Len(idx) |-> a[idx[i]]]

\* a[mask] for a boolean mask.
Mask(a, m) == Take(a, NonZero(m))

\* np.repeat(a, n): a[i] repeated n[i] times.
Repeat(a, n) == Concat([i \in 1..Len(a) |-> [j \in 1..n[i] |-> a[i]]])

Cells(H, W) == (0..(H - 1)) \X (0..(W - 1))

\* The array f held as a table of its elements, each computed once.
Tabulate(f) == f @@ <<>>

\* The cells of rows r0..r1-1 in row-major order.
RowMajor(r0, r1, W) ==
    [i \in 1..((r1 - r0) * W) |-> <<r0 + ((i - 1) \div W), (i - 1) % W>>]

(***************************************************************************)
(* Slab decomposition (mpi_utils.py).                                      *)
(***************************************************************************)
Ranks(size) == 0..(size - 1)

\* A faulty distribution: the remainder goes to the last rank.
slab_counts_last(nrows, size) ==
    [k \in Ranks(size) |-> (nrows \div size) + (IF k = size - 1 THEN nrows % size ELSE 0)]

\* counts: floor division, the remainder to the first ranks.
slab_counts(nrows, size) ==
    [k \in Ranks(size) |-> (nrows \div size) + (IF k < nrows % size THEN 1 ELSE 0)]

RECURSIVE SumTo(_, _)
SumTo(f, k) == IF k < 0 THEN 0 ELSE f[k] + SumTo(f, k - 1)

\* Faulty starts: the prefix sums include the rank's own count.
slab_starts_inclusive(nrows, size) ==
    [k \in Ranks(size) |-> SumTo(slab_counts(nrows, size), k)]

\* starts: prefix sums of counts.
slab_starts(nrows, size) ==
    [k \in Ranks(size) |-> SumTo(slab_counts(nrows, size), k - 1)]

slab_bounds(nrows, size, rank) ==
    <<slab_starts(nrows, size)[rank],
      slab_starts(nrows, size)[rank] + slab_counts(nrows, size)[rank]>>

\* A faulty owner lookup: searchsorted with side="left", which sends the first
\* row of a slab to the rank before.
rank_of_row_left(r, nrows, size) ==
    Cardinality({k \in Ranks(size) :
                    slab_starts(nrows, size)[k] + slab_counts(nrows, size)[k] < r})

\* A faulty owner lookup: rows dealt out in equal blocks of ceil(nrows/size).
rank_of_row_blocks(r, nrows, size) == r \div ((nrows + size - 1) \div size)

\* np.searchsorted(ends, r, side="right"): how many ends are <= r.
rank_of_row(r, nrows, size) ==
    Cardinality({k \in Ranks(size) :
        slab_starts(nrows, size)[k] + slab_counts(nrows, size)[k] <= r})

(***************************************************************************)
(* D8 direction index (d8.py).                                             *)
(***************************************************************************)
ESRI_OFFSETS ==
    (1 :> <<0, 1>>) @@ (2 :> <<1, 1>>) @@ (4 :> <<1, 0>>) @@ (8 :> <<1, -1>>) @@
    (16 :> <<0, -1>>) @@ (32 :> <<-1, -1>>) @@ (64 :> <<-1, 0>>) @@ (128 :> <<-1, 1>>)

CW0_7_OFFSETS ==
    (0 :> <<0, 1>>) @@ (1 :> <<1, 1>>) @@ (2 :> <<1, 0>>) @@ (3 :> <<1, -1>>) @@
    (4 :> <<0, -1>>) @@ (5 :> <<-1, -1>>) @@ (6 :> <<-1, 0>>) @@ (7 :> <<-1, 1>>)

\* The encodings build_downstream_index accepts (enc, the normalised string);
\* any other raises ValueError.
d8_encoding_known(enc) == enc \in {"esri", "cw0_7", "clockwise0_7", "0_7"}

\* A faulty index: the bounds test is missing, a direction that leaves the
\* grid is kept as a downstream cell.
build_downstream_index_unbounded(d8, encoding, nrows, ncols) ==
    LET offsets == IF encoding = "esri" THEN ESRI_OFFSETS ELSE CW0_7_OFFSETS
        known(x) == d8[x] \in DOMAIN offsets
    IN  [valid |-> [x \in Cells(nrows, ncols) |-> known(x)],
         ds_r  |-> [x \in Cells(nrows, ncols) |->
                       IF known(x) THEN x[1] + offsets[d8[x]][1] ELSE -1],
         ds_c  |-> [x \in Cells(nrows, ncols) |->
                       IF known(x) THEN x[2] + offsets[d8[x]][2] ELSE -1]]

\* [valid, ds_r, ds_c] for a raster d8 of shape (nrows, ncols).
build_downstream_index(d8, encoding, nrows, ncols) ==
    LET offsets == IF encoding = "esri" THEN ESRI_OFFSETS ELSE CW0_7_OFFSETS
        known(x) == d8[x] \in DOMAIN offsets
        r2(x) == x[1] + offsets[d8[x]][1]
        c2(x) == x[2] + offsets[d8[x]][2]
        inside(x) == known(x) /\ r2(x) >= 0 /\ r2(x) < nrows /\ c2(x) >= 0 /\ c2(x) < ncols
    IN  [valid |-> [x \in Cells(nrows, ncols) |-> inside(x)],
         ds_r  |-> [x \in Cells(nrows, ncols) |-> IF inside(x) THEN r2(x) ELSE -1],
         ds_c  |-> [x \in Cells(nrows, ncols) |-> IF inside(x) THEN c2(x) ELSE -1]]

(***************************************************************************)
(* SCS curve-number runoff (runoff.py).                                    *)
(***************************************************************************)
\* A faulty law: the condition P > Ia is missing, so the formula is also
\* applied below the initial abstraction.
scs_cell_unguarded(P, CNv, ia_ratio) ==
    LET ok == IsFinite(CNv) /\ IsFinite(P) /\ RLt(Zero, CNv) /\ RLe(CNv, R(100))
    IN  IF ~ok THEN Zero
        ELSE LET S  == RSub(RDiv(R(25400), CNv), R(254))
                 Ia == RMul(ia_ratio, S)
             IN  IF RLt(Zero, S)
                 THEN RDiv(RMul(RSub(P, Ia), RSub(P, Ia)), RAdd(RSub(P, Ia), S))
                 ELSE Zero

\* One cell of scs_cn_cumulative_runoff_mm.
scs_cell(P, CNv, ia_ratio) ==
    LET ok == IsFinite(CNv) /\ IsFinite(P) /\ RLt(Zero, CNv) /\ RLe(CNv, R(100))
    IN  IF ~ok THEN Zero
        ELSE LET S  == RSub(RDiv(R(25400), CNv), R(254))
                 Ia == RMul(ia_ratio, S)
                 cond == RLt(Ia, P) /\ RLt(Zero, S)
             IN  IF cond
                 THEN RDiv(RMul(RSub(P, Ia), RSub(P, Ia)), RAdd(RSub(P, Ia), S))
                 ELSE Zero

\* The array form: cell-wise over the cells of P.
scs_cn_cumulative_runoff_mm(P_cum_mm, CN, ia_ratio) ==
    [x \in DOMAIN P_cum_mm |-> scs_cell(P_cum_mm[x], CN[x], ia_ratio)]

(***************************************************************************)
(* Particle container (particles.py): a structure of four arrays.          *)
(***************************************************************************)
Particles(r, c, vol, tau) == [r |-> r, c |-> c, vol |-> vol, tau |-> tau]

empty_particles == Particles(<<>>, <<>>, <<>>, <<>>)

concat_particles(a, b) ==
    IF Len(a.r) = 0 THEN b
    ELSE IF Len(b.r) = 0 THEN a
    ELSE Particles(a.r \o b.r, a.c \o b.c, a.vol \o b.vol, a.tau \o b.tau)

\* p.x[m] on each of the four arrays.
MaskParticles(p, m) ==
    Particles(Mask(p.r, m), Mask(p.c, m), Mask(p.vol, m), Mask(p.tau, m))

\* The (k,4) float64 matrix: int32 row and column cast to float64.
pack_particles_to_float64(p) ==
    [i \in 1..Len(p.r) |-> <<R(p.r[i]), R(p.c[i]), p.vol[i], p.tau[i]>>]

\* Back from the matrix: columns 0 and 1 cast to int32.
unpack_particles_from_float64(buf) ==
    IF Len(buf) = 0 THEN empty_particles
    ELSE Particles([i \in 1..Len(buf) |-> AsInt32(buf[i][1])],
                   [i \in 1..Len(buf) |-> AsInt32(buf[i][2])],
                   [i \in 1..Len(buf) |-> buf[i][3]],
                   [i \in 1..Len(buf) |-> buf[i][4]])

\* ndarray.ravel() of a (k,4) matrix.
Ravel(buf) == [i \in 1..(4 * Len(buf)) |-> buf[((i - 1) \div 4) + 1][((i - 1) % 4) + 1]]

\* ndarray.reshape((-1, 4)) of a flat buffer whose length is a multiple of 4.
Reshape4(flat) ==
    [i \in 1..(Len(flat) \div 4) |->
        <<flat[4 * i - 3], flat[4 * i - 2], flat[4 * i - 1], flat[4 * i]>>]

(***************************************************************************)
(* Spawn and advect (hydraulics.py).                                       *)
(***************************************************************************)
\* cell_area_m2 is [scalar |-> TRUE, v |-> a] or [scalar |-> FALSE, v |-> array].
cell_area_at(area, rr, cc) ==
    [i \in 1..Len(rr) |-> IF area.scalar THEN area.v ELSE area.v[<<rr[i], cc[i]>>]]

\* The particles of the selected cells: n[i] particles of volume vols[i] / n[i]
\* on cell <<rr_global[i], cc[i]>>, with tau 0.
spawn_repeat(rr_global, cc, vols, n) ==
    [p |-> Particles(Repeat(rr_global, n), Repeat(cc, n),
                     Repeat([i \in 1..Len(vols) |-> RDiv(vols[i], R(n[i]))], n),
                     [i \in 1..Len(Repeat(cc, n)) |-> Zero]),
     total_vol |-> RSum(vols)]

\* A faulty count: the ratio is truncated, not rounded.
spawn_counts_truncated(rr_global, cc, vols, particle_vol_m3) ==
    spawn_repeat(rr_global, cc, vols,
        Tabulate([i \in 1..Len(vols) |->
            LET k == AsInt32(RDiv(vols[i], particle_vol_m3))
            IN  IF k > 1 THEN k ELSE 1]))

\* n = maximum(1, round(vols / particle_vol_m3).astype(int32)).
spawn_counts(rr_global, cc, vols, particle_vol_m3) ==
    spawn_repeat(rr_global, cc, vols,
        Tabulate([i \in 1..Len(vols) |->
            LET k == AsInt32(R(RoundHalfEven(RDiv(vols[i], particle_vol_m3))))
            IN  IF k > 1 THEN k ELSE 1]))

\* vols = depth[rr_local, cc] * area.
spawn_volumes(depth, rr_local, rr_global, cc, area, particle_vol_m3) ==
    spawn_counts(rr_global, cc,
        Tabulate([i \in 1..Len(cc) |-> RMul(depth[<<rr_local[i], cc[i]>>], area[i])]),
        particle_vol_m3)

\* sel: the local cells that spawn; nothing is spawned when there is none.
spawn_selected(depth, sel, r0, cell_area_m2, particle_vol_m3) ==
    IF Len(sel) = 0
    THEN [p |-> empty_particles, total_vol |-> Zero]
    ELSE spawn_volumes(depth,
             [i \in 1..Len(sel) |-> sel[i][1]],
             [i \in 1..Len(sel) |-> sel[i][1] + r0],
             [i \in 1..Len(sel) |-> sel[i][2]],
             cell_area_at(cell_area_m2, [i \in 1..Len(sel) |-> sel[i][1] + r0],
                          [i \in 1..Len(sel) |-> sel[i][2]]),
             particle_vol_m3)

\* wet: the local cells of positive depth, row-major; of these the active ones spawn.
spawn_active(depth, wet, r0, cell_area_m2, particle_vol_m3, active_mask_global) ==
    IF Len(wet) = 0
    THEN [p |-> empty_particles, total_vol |-> Zero]
    ELSE spawn_selected(depth,
             Mask(wet, [i \in 1..Len(wet) |->
                           active_mask_global[<<wet[i][1] + r0, wet[i][2]>>]]),
             r0, cell_area_m2, particle_vol_m3)

\* depth: the slab's runoff depth clipped at 0, cells: its cells in row-major order.
spawn_wet(depth, cells, r0, cell_area_m2, particle_vol_m3, active_mask_global) ==
    spawn_active(depth, Mask(cells, [i \in 1..Len(cells) |-> RLt(Zero, depth[cells[i]])]),
                 r0, cell_area_m2, particle_vol_m3, active_mask_global)

\* [p |-> the new particles, total_vol |-> their volume]; the slab array is
\* indexed by local row and column, slab_h by ncols its shape.
spawn_particles_from_runoff_slab(runoff_depth_m_slab, slab_h, ncols, r0, cell_area_m2, particle_vol_m3, active_mask_global) ==
    spawn_wet(Tabulate([x \in DOMAIN runoff_depth_m_slab |->
                           RMax(runoff_depth_m_slab[x], Zero)]),
              RowMajor(0, slab_h, ncols), r0, cell_area_m2, particle_vol_m3,
              active_mask_global)

\* a[idx] = vals for an index array idx without repeats.
Put(a, idx, vals) ==
    [i \in 1..Len(a) |->
        IF \E j \in 1..Len(idx) : idx[j] = i
        THEN vals[CHOOSE j \in 1..Len(idx) : idx[j] = i]
        ELSE a[i]]

NotMask(m) == [i \in 1..Len(m) |-> ~m[i]]

AnyTrue(m) == \E i \in 1..Len(m) : m[i]

\* A faulty sink: the particles leave and their volume is not reported.
advect_sink_uncredited(particles, drop, nhops, outflow_sink) ==
    IF outflow_sink /\ Len(drop) > 0
    THEN [p |-> MaskParticles(particles,
                    [i \in 1..Len(particles.r) |-> ~(\E j \in 1..Len(drop) : drop[j] = i)]),
          outflow_vol |-> Zero,
          nhops |-> nhops]
    ELSE [p |-> particles, outflow_vol |-> Zero, nhops |-> nhops]

\* A faulty gate: it never opens, no particle moves or leaves.
advect_gate_shut(particles, idx, valid, ds_r, ds_c, travel_time_s, travel_time_channel_s, channel_mask, outflow_sink) ==
    [p |-> particles, outflow_vol |-> Zero, nhops |-> 0]

\* A faulty sink: the policy is not consulted, the movable particles on
\* terminal cells always leave.
advect_sink_always(particles, drop, nhops, outflow_sink) ==
    IF Len(drop) > 0
    THEN [p |-> MaskParticles(particles,
                    [i \in 1..Len(particles.r) |-> ~(\E j \in 1..Len(drop) : drop[j] = i)]),
          outflow_vol |-> RSum(Take(particles.vol, drop)),
          nhops |-> nhops]
    ELSE [p |-> particles, outflow_vol |-> Zero, nhops |-> nhops]

\* The outflow sink: with the policy on, the movable particles on terminal
\* cells (drop) leave the container and their volume is the step's outflow.
advect_sink(particles, drop, nhops, outflow_sink) ==
    IF outflow_sink /\ Len(drop) > 0
    THEN [p |-> MaskParticles(particles,
                    [i \in 1..Len(particles.r) |-> ~(\E j \in 1..Len(drop) : drop[j] = i)]),
          outflow_vol |-> RSum(Take(particles.vol, drop)),
          nhops |-> nhops]
    ELSE [p |-> particles, outflow_vol |-> Zero, nhops |-> nhops]

\* A faulty hop: the downstream row is written to the column array and the
\* downstream column to the row array.
advect_move_transposed(particles, moved, rds, cds, travel_time_s, travel_time_channel_s, channel_mask) ==
    Particles(Put(particles.r, moved, cds), Put(particles.c, moved, rds), particles.vol,
              Put(particles.tau, moved,
                  [i \in 1..Len(moved) |->
                      RAdd(particles.tau[moved[i]],
                           IF channel_mask.present /\ channel_mask.m[<<rds[i], cds[i]>>]
                           THEN travel_time_channel_s ELSE travel_time_s)]))

\* A faulty hop: the channel mask is not consulted, every hop takes the
\* overland travel time.
advect_move_overland(particles, moved, rds, cds, travel_time_s, travel_time_channel_s, channel_mask) ==
    Particles(Put(particles.r, moved, rds), Put(particles.c, moved, cds), particles.vol,
              Put(particles.tau, moved,
                  [i \in 1..Len(moved) |-> RAdd(particles.tau[moved[i]], travel_time_s)]))

\* The hop: the particles moved go to <<rds, cds>> and take the travel time of
\* the cell they arrive on. channel_mask is [present |-> FALSE] (None) or
\* [present |-> TRUE, m |-> mask].
advect_move(particles, moved, rds, cds, travel_time_s, travel_time_channel_s, channel_mask) ==
    Particles(Put(particles.r, moved, rds), Put(particles.c, moved, cds), particles.vol,
              Put(particles.tau, moved,
                  [i \in 1..Len(moved) |->
                      RAdd(particles.tau[moved[i]],
                           IF channel_mask.present /\ channel_mask.m[<<rds[i], cds[i]>>]
                           THEN travel_time_channel_s ELSE travel_time_s)]))

\* A faulty hop: the new cells and travel times are computed and not written
\* back, the particles stay as they are.
advect_hop_unwritten(particles, moved, ds_r, ds_c, travel_time_s, travel_time_channel_s, channel_mask) ==
    particles

\* moved: the movable particles on cells with a downstream cell.
advect_hop(particles, moved, ds_r, ds_c, travel_time_s, travel_time_channel_s, channel_mask) ==
    IF Len(moved) = 0 THEN particles
    ELSE advect_move(particles, moved,
             Tabulate([i \in 1..Len(moved) |->
                          ds_r[<<particles.r[moved[i]], particles.c[moved[i]]>>]]),
             Tabulate([i \in 1..Len(moved) |->
                          ds_c[<<particles.r[moved[i]], particles.c[moved[i]]>>]]),
             travel_time_s, travel_time_channel_s, channel_mask)

\* idx: the movable particles, v: whether each is on a cell with a downstream cell.
advect_valid(particles, idx, v, ds_r, ds_c, travel_time_s, travel_time_channel_s, channel_mask, outflow_sink) ==
    advect_sink(advect_hop(particles, Mask(idx, v), ds_r, ds_c, travel_time_s,
                           travel_time_channel_s, channel_mask),
                Mask(idx, NotMask(v)), Len(Mask(idx, v)), outflow_sink)

\* The gate: only particles whose tau has run out may move.
advect_gate(particles, idx, valid, ds_r, ds_c, travel_time_s, travel_time_channel_s, channel_mask, outflow_sink) ==
    IF Len(idx) = 0
    THEN [p |-> particles, outflow_vol |-> Zero, nhops |-> 0]
    ELSE advect_valid(particles, idx,
             Tabulate([i \in 1..Len(idx) |->
                          valid[<<particles.r[idx[i]], particles.c[idx[i]]>>]]),
             ds_r, ds_c, travel_time_s, travel_time_channel_s, channel_mask, outflow_sink)

\* particles with tau already decreased by dt_s.
advect_aged(particles, valid, ds_r, ds_c, travel_time_s, travel_time_channel_s, channel_mask, outflow_sink) ==
    advect_gate(particles,
                NonZero([i \in 1..Len(particles.tau) |-> RLe(particles.tau[i], Zero)]),
                valid, ds_r, ds_c, travel_time_s, travel_time_channel_s, channel_mask,
                outflow_sink)

\* [p |-> particles, outflow_vol |-> volume dropped, nhops |-> hops made].
advect_particles_one_step(particles, valid, ds_r, ds_c, dt_s, travel_time_s, travel_time_channel_s, channel_mask, outflow_sink) ==
    IF Len(particles.r) = 0
    THEN [p |-> particles, outflow_vol |-> Zero, nhops |-> 0]
    ELSE advect_aged(Particles(particles.r, particles.c, particles.vol,
                         Tabulate([i \in 1..Len(particles.tau) |->
                                      RSub(particles.tau[i], dt_s)])),
                     valid, ds_r, ds_c, travel_time_s, travel_time_channel_s,
                     channel_mask, outflow_sink)

\* A faulty deposit, volgrid[rr, cc] = vol: of several particles on one cell the
\* last one overwrites the others.
volgrid_put_at(slab_h, ncols, pm, r0) ==
    [x \in Cells(slab_h, ncols) |->
        IF \E i \in 1..Len(pm.r) : pm.r[i] - r0 = x[1] /\ pm.c[i] = x[2]
        THEN pm.vol[CHOOSE i \in 1..Len(pm.r) :
                       /\ pm.r[i] - r0 = x[1] /\ pm.c[i] = x[2]
                       /\ \A j \in (i + 1)..Len(pm.r) :
                              ~(pm.r[j] - r0 = x[1] /\ pm.c[j] = x[2])]
        ELSE Zero]

\* np.add.at(volgrid, (rr, cc), vol) on a grid of zeros, for the particles pm of
\* the slab, rr = pm.r - r0.
volgrid_add_at(slab_h, ncols, pm, r0) ==
    [x \in Cells(slab_h, ncols) |->
        RSum(Mask(pm.vol, [i \in 1..Len(pm.r) |-> pm.r[i] - r0 = x[1] /\ pm.c[i] = x[2]]))]

\* Volume per cell of the slab rows r0..r1-1, indexed by local row and column.
local_volgrid_from_particles_slab(p, r0, r1, ncols) ==
    volgrid_add_at(r1 - r0, ncols,
        Tabulate(MaskParticles(p, [i \in 1..Len(p.r) |-> p.r[i] >= r0 /\ p.r[i] < r1])),
        r0)

(***************************************************************************)
(* Collectives and particle migration (mpi_utils.py).                      *)
(***************************************************************************)
\* The data movement of the count exchange plus Alltoallv: rank k receives, in
\* source-rank order, what every rank put in its buffer for k.
\* sendbuf_by_rank[src][dst] is the flat buffer src sends to dst.
alltoallv_float64(sendbuf_by_rank, size) ==
    [k \in Ranks(size) |-> Concat([i \in 1..size |-> sendbuf_by_rank[i - 1][k]])]

\* dest: the owning rank of each particle's row.
migrate_dest(particles, nrows, size) ==
    [i \in 1..Len(particles.r) |-> rank_of_row(particles.r[i], nrows, size)]

\* local: the particles whose destination is this rank.
migrate_local(rank, particles, nrows, size) ==
    LET dest == migrate_dest(particles, nrows, size)
    IN  MaskParticles(particles, [i \in 1..Len(dest) |-> dest[i] = rank])

\* sendbuf_by_rank of one rank: per destination, the packed and flattened
\* particles going there; empty for itself.
migrate_sendbuf(rank, particles, nrows, size) ==
    LET dest == migrate_dest(particles, nrows, size)
    IN  [dst \in Ranks(size) |->
            LET m == [i \in 1..Len(dest) |-> dest[i] = dst]
            IN  IF dst = rank THEN <<>>
                ELSE IF AnyTrue(m)
                THEN Ravel(pack_particles_to_float64(MaskParticles(particles, m)))
                ELSE <<>>]

\* The sanity check on the received payload: RuntimeError when it fails.
migrate_payload_error(recvflat) == Len(recvflat) # 0 /\ Len(recvflat) % 4 # 0

\* A faulty rebuild: the received particles replace the ones kept.
migrate_rebuild_received_only(local, recvflat) ==
    IF Len(recvflat) = 0 THEN local
    ELSE unpack_particles_from_float64(Reshape4(recvflat))

\* The container a rank ends with, given what it kept and what it received.
migrate_rebuild(local, recvflat) ==
    IF Len(recvflat) = 0 THEN local
    ELSE concat_particles(local, unpack_particles_from_float64(Reshape4(recvflat)))

\* A migration that exchanges nothing: every rank keeps its container.
migrate_nothing(parts, nrows, size) == parts

\* The collective call on all ranks: parts[k] is rank k's container before the
\* call, the result its container after it.
migrate_particles_slab(parts, nrows, size) ==
    LET recv == alltoallv_float64(
                    [k \in Ranks(size) |-> migrate_sendbuf(k, parts[k], nrows, size)], size)
    IN  [k \in Ranks(size) |->
            migrate_rebuild(migrate_local(k, parts[k], nrows, size), recv[k])]

\* Rows r0..r1-1 of a full array, indexed by local row and column (Scatterv).
scatter_field_slab(full, nrows, ncols, size) ==
    [k \in Ranks(size) |->
        [x \in Cells(slab_counts(nrows, size)[k], ncols) |->
            full[<<x[1] + slab_starts(nrows, size)[k], x[2]>>]]]

\* Gatherv with the row counts and displacements of the slabs: rank q's slab
\* lands on rows starts[q] .. starts[q] + counts[q] - 1.
gather_place(slabs, nrows, ncols, size, counts, starts) ==
    [x \in Cells(nrows, ncols) |->
        slabs[CHOOSE q \in Ranks(size) : starts[q] <= x[1] /\ x[1] < starts[q] + counts[q]]
             [<<x[1] - starts[CHOOSE q \in Ranks(size) :
                                  starts[q] <= x[1] /\ x[1] < starts[q] + counts[q]],
                x[2]>>]]

\* The full array rebuilt on rank 0 from every rank's slab (Gatherv).
gather_field_slab_to_rank0(slabs, nrows, ncols, size) ==
    gather_place(slabs, nrows, ncols, size, Tabulate(slab_counts(nrows, size)),
                 Tabulate(slab_starts(nrows, size)))

\* All particles on rank 0, in source-rank order.
gather_particles_to_rank0(parts, size) ==
    LET recv == alltoallv_float64(
                    [k \in Ranks(size) |->
                        [dst \in Ranks(size) |->
                            IF dst = 0 THEN Ravel(pack_particles_to_float64(parts[k]))
                            ELSE <<>>]], size)
    IN  IF Len(recv[0]) = 0 THEN empty_particles
        ELSE unpack_particles_from_float64(Reshape4(recv[0]))

\* Rank 0 sends every particle to the rank that owns its row.
scatter_particles_from_rank0(p_all, nrows, size) ==
    LET dest == migrate_dest(p_all, nrows, size)
        send0 == [dst \in Ranks(size) |->
                     LET m == [i \in 1..Len(dest) |-> dest[i] = dst]
                     IN  IF Len(p_all.r) > 0 /\ AnyTrue(m)
                         THEN Ravel(pack_particles_to_float64(MaskParticles(p_all, m)))
                         ELSE <<>>]
        recv == alltoallv_float64(
                    [k \in Ranks(size) |->
                        IF k = 0 THEN send0 ELSE [dst \in Ranks(size) |-> <<>>]], size)
    IN  [k \in Ranks(size) |->
            IF Len(recv[k]) = 0 THEN empty_particles
            ELSE unpack_particles_from_float64(Reshape4(recv[k]))]

(***************************************************************************)
(* Restart bundle (io_netcdf.py).                                          *)
(***************************************************************************)
\* What save_restart_netcdf_rank0 writes (the casts keep each array's own type).
save_restart_netcdf_rank0(elapsed_s, cum_rain_vol_m3, cum_runoff_vol_m3, cum_outflow_vol_m3, P_cum_mm_full, Q_cum_mm_full, particles_all) ==
    [P_cum_mm |-> P_cum_mm_full,
     Q_cum_mm |-> Q_cum_mm_full,
     particle_r |-> particles_all.r,
     particle_c |-> particles_all.c,
     particle_vol |-> particles_all.vol,
     particle_tau |-> particles_all.tau,
     elapsed_s |-> elapsed_s,
     cum_rain_vol_m3 |-> cum_rain_vol_m3,
     cum_runoff_vol_m3 |-> cum_runoff_vol_m3,
     cum_outflow_vol_m3 |-> cum_outflow_vol_m3]

\* A faulty load: the particles come back with their travel time reset.
load_restart_tau_reset(ds) ==
    [P_cum_mm |-> ds.P_cum_mm,
     Q_cum_mm |-> ds.Q_cum_mm,
     r |-> ds.particle_r,
     c |-> ds.particle_c,
     vol |-> ds.particle_vol,
     tau |-> [i \in 1..Len(ds.particle_tau) |-> Zero],
     elapsed_s |-> ds.elapsed_s,
     cum_rain_vol_m3 |-> ds.cum_rain_vol_m3,
     cum_runoff_vol_m3 |-> ds.cum_runoff_vol_m3,
     cum_outflow_vol_m3 |-> ds.cum_outflow_vol_m3]

\* The state dict load_restart_netcdf_rank0 returns for a written bundle.
load_restart_netcdf_rank0(ds) ==
    [P_cum_mm |-> ds.P_cum_mm,
     Q_cum_mm |-> ds.Q_cum_mm,
     r |-> ds.particle_r,
     c |-> ds.particle_c,
     vol |-> ds.particle_vol,
     tau |-> ds.particle_tau,
     elapsed_s |-> ds.elapsed_s,
     cum_rain_vol_m3 |-> ds.cum_rain_vol_m3,
     cum_runoff_vol_m3 |-> ds.cum_runoff_vol_m3,
     cum_outflow_vol_m3 |-> ds.cum_outflow_vol_m3]

(***************************************************************************)
(* Flow accumulation and risk index (risk.py).                             *)
(***************************************************************************)
\* The traversal loop: pop the last cell of the stack, pass its area on to its
\* downstream cell, push that cell once all its tributaries have done so.
\* [acc, indeg] when the stack has run empty.
RECURSIVE flow_accum_loop(_, _, _, _, _)
RECURSIVE flow_accum_pass(_, _, _, _, _, _, _)
\* A faulty pass: the downstream cell is credited with one unit for the
\* tributary instead of the tributary's accumulated area.
flow_accum_pass_unit(acc, indeg, rest, active_mask, ix, x, d) ==
    flow_accum_loop(Tabulate([acc EXCEPT ![d] = RAdd(@, R(1))]),
                    Tabulate([indeg EXCEPT ![d] = @ - 1]),
                    IF indeg[d] - 1 = 0 /\ active_mask[d] THEN Append(rest, d) ELSE rest,
                    active_mask, ix)

flow_accum_loop(acc, indeg, stack, active_mask, ix) ==
    IF Len(stack) = 0 THEN [acc |-> acc, indeg |-> indeg]
    ELSE IF ~(active_mask[stack[Len(stack)]] /\ ix.valid[stack[Len(stack)]])
         \/ ix.ds_r[stack[Len(stack)]] < 0 \/ ix.ds_c[stack[Len(stack)]] < 0
    THEN flow_accum_loop(acc, indeg, SubSeq(stack, 1, Len(stack) - 1), active_mask, ix)
    ELSE flow_accum_pass(acc, indeg, SubSeq(stack, 1, Len(stack) - 1), active_mask, ix,
                         stack[Len(stack)],
                         <<ix.ds_r[stack[Len(stack)]], ix.ds_c[stack[Len(stack)]]>>)

\* One pass of the loop body: cell x hands acc[x] to its downstream cell d.
flow_accum_pass(acc, indeg, rest, active_mask, ix, x, d) ==
    flow_accum_loop(Tabulate([acc EXCEPT ![d] = RAdd(@, acc[x])]),
                    Tabulate([indeg EXCEPT ![d] = @ - 1]),
                    IF indeg[d] - 1 = 0 /\ active_mask[d] THEN Append(rest, d) ELSE rest,
                    active_mask, ix)

\* A faulty loop body: the downstream cell is made ready at every decrement,
\* without waiting for its in-degree to reach 0.
sweep_take_eager(acc, indeg, work, taken, i, active_mask, ix) ==
    LET x == work[i]
        d == <<ix.ds_r[x], ix.ds_c[x]>>
        rest == SubSeq(work, 1, i - 1) \o SubSeq(work, i + 1, Len(work))
    IN  IF ~(active_mask[x] /\ ix.valid[x]) \/ d[1] < 0 \/ d[2] < 0
        THEN [acc |-> acc, indeg |-> indeg, work |-> rest, taken |-> Append(taken, x)]
        ELSE [acc |-> [acc EXCEPT ![d] = RAdd(@, acc[x])],
              indeg |-> [indeg EXCEPT ![d] = @ - 1],
              work |-> IF active_mask[d] THEN Append(rest, d) ELSE rest,
              taken |-> Append(taken, x)]

\* The loop body on the i-th cell of the work list (the source pops the last):
\* the cell x hands acc[x] to its downstream cell d, which becomes ready when
\* its in-degree reaches 0. taken lists the cells processed.
sweep_take(acc, indeg, work, taken, i, active_mask, ix) ==
    LET x == work[i]
        d == <<ix.ds_r[x], ix.ds_c[x]>>
        rest == SubSeq(work, 1, i - 1) \o SubSeq(work, i + 1, Len(work))
    IN  IF ~(active_mask[x] /\ ix.valid[x]) \/ d[1] < 0 \/ d[2] < 0
        THEN [acc |-> acc, indeg |-> indeg, work |-> rest, taken |-> Append(taken, x)]
        ELSE [acc |-> [acc EXCEPT ![d] = RAdd(@, acc[x])],
              indeg |-> [indeg EXCEPT ![d] = @ - 1],
              work |-> IF indeg[d] - 1 = 0 /\ active_mask[d] THEN Append(rest, d) ELSE rest,
              taken |-> Append(taken, x)]

\* acc, the in-degrees and the work list before the loop.
sweep_start(cell_area_m2, active_mask, nrows, ncols, ix) ==
    LET indeg == [x \in Cells(nrows, ncols) |->
                     Cardinality({y \in Cells(nrows, ncols) :
                                     /\ active_mask[y] /\ ix.valid[y]
                                     /\ <<ix.ds_r[y], ix.ds_c[y]>> = x})]
        cells == RowMajor(0, nrows, ncols)
    IN  [acc |-> [x \in Cells(nrows, ncols) |->
                     IF active_mask[x]
                     THEN (IF cell_area_m2.scalar THEN cell_area_m2.v ELSE cell_area_m2.v[x])
                     ELSE Zero],
         indeg |-> indeg,
         work |-> Mask(cells, [i \in 1..Len(cells) |->
                                  active_mask[cells[i]] /\ indeg[cells[i]] = 0]),
         taken |-> <<>>]

\* acc starts as the cell's own area on active cells; indeg counts the active
\* tributaries; the stack starts with the active cells of in-degree 0.
flow_accum_start(acc, indeg, cells, active_mask, ix) ==
    flow_accum_loop(acc, indeg,
                    Mask(cells, [i \in 1..Len(cells) |->
                                    active_mask[cells[i]] /\ indeg[cells[i]] = 0]),
                    active_mask, ix)

\* The in-degrees and the start of acc, from the direction index ix.
flow_accum_indeg(cell_area_m2, active_mask, nrows, ncols, ix) ==
    flow_accum_start(
        Tabulate([x \in Cells(nrows, ncols) |->
                     IF active_mask[x]
                     THEN (IF cell_area_m2.scalar THEN cell_area_m2.v ELSE cell_area_m2.v[x])
                     ELSE Zero]),
        Tabulate([x \in Cells(nrows, ncols) |->
                     Cardinality({y \in Cells(nrows, ncols) :
                                     /\ active_mask[y] /\ ix.valid[y]
                                     /\ <<ix.ds_r[y], ix.ds_c[y]>> = x})]),
        RowMajor(0, nrows, ncols), active_mask, ix)

\* Upstream contributing area in m2; nrows by ncols is the shape of d8. Only
\* acc is returned, the in-degrees left by the sweep are dropped.
compute_flow_accum_area_m2(d8, encoding, cell_area_m2, active_mask, nrows, ncols) ==
    flow_accum_indeg(cell_area_m2, active_mask, nrows, ncols,
                     build_downstream_index(d8, encoding, nrows, ncols)).acc

\* vals in ascending order, from the number of values below each (less) and
\* not above each (upto).
SortedBy(vals, less, upto) ==
    [i \in 1..Len(vals) |->
        vals[CHOOSE j \in 1..Len(vals) : less[j] < i /\ i <= upto[j]]]

Sorted(vals) ==
    SortedBy(vals,
        Tabulate([j \in 1..Len(vals) |->
                     Cardinality({k \in 1..Len(vals) : RLt(vals[k], vals[j])})]),
        Tabulate([j \in 1..Len(vals) |->
                     Cardinality({k \in 1..Len(vals) : RLe(vals[k], vals[j])})]))

\* The value at the fractional position pos (from 0) of the ascending s, by
\* linear interpolation between its neighbours.
percentile_at(s, pos) ==
    IF (pos[1] \div pos[2]) + 1 >= Len(s) THEN s[Len(s)]
    ELSE RAdd(s[(pos[1] \div pos[2]) + 1],
              RMul(RSub(pos, R(pos[1] \div pos[2])),
                   RSub(s[(pos[1] \div pos[2]) + 2], s[(pos[1] \div pos[2]) + 1])))

\* np.nanpercentile of the values whose ascending order is s (NaN already left
\* out), 0 <= q <= 100.
nanpercentile(s, q) ==
    IF Len(s) = 0 THEN NaN
    ELSE percentile_at(s, RMul(RDiv(q, R(100)), R(Len(s) - 1)))

\* np.clip(y, 0, 1).
Clip01(y) == IF RLt(y, Zero) THEN Zero ELSE IF RLt(R(1), y) THEN R(1) ELSE y

\* The normalisation between the percentiles lo and hi.
normalize_between(a, mask, lo, hi) ==
    IF ~IsFinite(lo) \/ ~IsFinite(hi) \/ RLe(hi, lo)
    THEN [x \in DOMAIN a |-> IF mask[x] THEN Zero ELSE NaN]
    ELSE [x \in DOMAIN a |->
             IF mask[x] /\ IsFinite(a[x])
             THEN Clip01(RDiv(RSub(a[x], lo), RSub(hi, lo)))
             ELSE NaN]

\* The values of a on the mask, NaN left out, in row-major order.
masked_values(a, mask, cells) ==
    Mask([i \in 1..Len(cells) |-> a[cells[i]]],
         [i \in 1..Len(cells) |-> mask[cells[i]] /\ IsFinite(a[cells[i]])])

\* The normalisation of a, given the ascending order s of its values on the mask.
normalize_sorted(a, mask, s, p_low, p_high) ==
    normalize_between(a, mask, nanpercentile(s, p_low), nanpercentile(s, p_high))

\* Robust normalisation to [0,1] by percentiles; cells lists the cells of a.
robust_normalize(a, mask, p_low, p_high, cells) ==
    normalize_sorted(a, mask, Tabulate(Sorted(Tabulate(masked_values(a, mask, cells)))),
                     p_low, p_high)

\* alpha * r1 + (1 - alpha) * r2 on the active cells, NaN elsewhere.
risk_combine(r1, r2, active_mask, alpha) ==
    [x \in DOMAIN r1 |->
        IF active_mask[x] /\ IsFinite(r1[x]) /\ IsFinite(r2[x])
        THEN RAdd(RMul(alpha, r1[x]), RMul(RSub(R(1), alpha), r2[x]))
        ELSE NaN]

compute_risk_index(runoff_cum_mm, flow_accum_m2, active_mask, balance, p_low, p_high, cells) ==
    risk_combine(Tabulate(robust_normalize(runoff_cum_mm, active_mask, p_low, p_high, cells)),
                 Tabulate(robust_normalize(flow_accum_m2, active_mask, p_low, p_high, cells)),
                 active_mask, Clip01(balance))

(***************************************************************************)
(* Rainfall sources and their blending (rain.py).                          *)
(*                                                                         *)
(* A source is a record [kind, weight, mode, value, path, var, select, da]:*)
(* value is None or a number; da is the variable found under var in the    *)
(* dataset at path, Absent when the dataset has no such variable, else     *)
(* [ndim, shape, datetime, times, frames] with one frame per time index;   *)
(* a simulation time is None or <<t>>, t in seconds.                       *)
(* A call that raises returns [ok |-> FALSE].                              *)
(***************************************************************************)
\* Python's None, and a variable the dataset does not hold.
None == <<>>

\* _NC_CACHE maps a path to the handle of its dataset (0: not in the cache);
\* handles lists the datasets opened so far, handle i being handles[i].
\* A faulty close: the cache is cleared and the datasets are left open.
xr_close_cache_unclosed(cache, handles, raising) ==
    [cache |-> [q \in DOMAIN cache |-> 0], handles |-> handles]

\* xr_open_cached(path): opens the dataset when the path is not in the cache;
\* opens says whether xr.open_dataset returns (else it raises and the cache is
\* left as it is).
xr_open_cached(cache, handles, path, opens) ==
    IF cache[path] # 0
    THEN [cache |-> cache, handles |-> handles, ret |-> cache[path], raised |-> FALSE]
    ELSE IF ~opens
    THEN [cache |-> cache, handles |-> handles, ret |-> 0, raised |-> TRUE]
    ELSE [cache |-> [cache EXCEPT ![path] = Len(handles) + 1],
          handles |-> Append(handles, [path |-> path, status |-> "open"]),
          ret |-> Len(handles) + 1, raised |-> FALSE]

\* xr_close_cache(): close() is called on every cached dataset, an exception
\* it raises (for the handles in raising) is swallowed; the cache is cleared.
xr_close_cache(cache, handles, raising) ==
    [cache |-> [q \in DOMAIN cache |-> 0],
     handles |-> [i \in 1..Len(handles) |->
                    IF \E q \in DOMAIN cache : cache[q] = i
                    THEN [handles[i] EXCEPT !.status = IF i \in raising THEN "close_raised"
                                                       ELSE "closed"]
                    ELSE handles[i]]]
Absent == [ndim |-> 0]

\* One value of rain_to_step_mm: non-finite to 0, negatives to 0, then the
\* conversion of the mode.
rain_value_to_step_mm(v, mode, dt_s) ==
    LET f == RMax(IF IsFinite(v) THEN v ELSE Zero, Zero)
    IN  IF mode = "intensity_mmph" THEN RMul(f, RDiv(dt_s, R(3600))) ELSE f

rain_to_step_mm(field, mode, dt_s) ==
    IF mode \in {"intensity_mmph", "depth_mm_per_step"}
    THEN [ok |-> TRUE,
          f |-> [x \in DOMAIN field |-> rain_value_to_step_mm(field[x], mode, dt_s)]]
    ELSE [ok |-> FALSE]

\* The first index (from 0) of the time axis nearest to target.
pick_time_index(time_vals, target) ==
    CHOOSE i \in 0..(Len(time_vals) - 1) :
        \A j \in 0..(Len(time_vals) - 1) :
            \/ Abs(time_vals[i + 1] - target) < Abs(time_vals[j + 1] - target)
            \/ (Abs(time_vals[i + 1] - target) = Abs(time_vals[j + 1] - target) /\ i <= j)

\* The time index a 3D variable is read at.
rain_time_index(src, step_idx, sim_time) ==
    IF src.select = "step" \/ sim_time = None
    THEN [ok |-> TRUE,
          it |-> IF step_idx < Len(src.da.frames) - 1 THEN step_idx
                 ELSE Len(src.da.frames) - 1]
    ELSE IF ~src.da.datetime THEN [ok |-> FALSE]
    ELSE [ok |-> TRUE, it |-> pick_time_index(src.da.times, sim_time[1])]

\* The field a source contributes before conversion, or the error it raises.
rain_source_field(src, H, W, step_idx, sim_time) ==
    IF src.kind = "scalar"
    THEN IF src.value = None THEN [ok |-> FALSE]
         ELSE [ok |-> TRUE, f |-> [x \in Cells(H, W) |-> src.value]]
    ELSE IF src.kind = "netcdf"
    THEN IF src.path = "None" \/ src.var = "None" THEN [ok |-> FALSE]
         ELSE IF src.da = Absent THEN [ok |-> FALSE]
         ELSE IF src.da.ndim \notin {2, 3} THEN [ok |-> FALSE]
         ELSE IF src.da.ndim = 3 /\ ~rain_time_index(src, step_idx, sim_time).ok
         THEN [ok |-> FALSE]
         ELSE IF src.da.shape # <<H, W>> THEN [ok |-> FALSE]
         ELSE [ok |-> TRUE,
               f |-> src.da.frames[IF src.da.ndim = 2 THEN 1
                                   ELSE rain_time_index(src, step_idx, sim_time).it + 1]]
    ELSE [ok |-> FALSE]

\* total += src.weight * rain_to_step_mm(field, src.mode, dt_s)
rain_add(total, src, field, dt_s) ==
    IF ~rain_to_step_mm(field, src.mode, dt_s).ok THEN [ok |-> FALSE]
    ELSE [ok |-> TRUE,
          total |-> [x \in DOMAIN total |->
                        RAdd(total[x],
                             RMul(src.weight, rain_to_step_mm(field, src.mode, dt_s).f[x]))]]

\* The loop over the sources from the i-th on.
RECURSIVE rain_blend_from(_, _, _, _, _, _, _, _)
rain_blend_from(sources, i, total, H, W, dt_s, step_idx, sim_time) ==
    IF i > Len(sources) THEN [ok |-> TRUE, total |-> total]
    ELSE IF sources[i].weight = Zero
    THEN rain_blend_from(sources, i + 1, total, H, W, dt_s, step_idx, sim_time)
    ELSE IF ~rain_source_field(sources[i], H, W, step_idx, sim_time).ok THEN [ok |-> FALSE]
    ELSE IF ~rain_add(total, sources[i],
                      rain_source_field(sources[i], H, W, step_idx, sim_time).f, dt_s).ok
    THEN [ok |-> FALSE]
    ELSE rain_blend_from(sources, i + 1,
             rain_add(total, sources[i],
                      rain_source_field(sources[i], H, W, step_idx, sim_time).f, dt_s).total,
             H, W, dt_s, step_idx, sim_time)

blended_rain_step_mm_rank0(sources, H, W, dt_s, step_idx, sim_time) ==
    rain_blend_from(sources, 1, [x \in Cells(H, W) |-> Zero], H, W, dt_s, step_idx, sim_time)

(***************************************************************************)
(* Configurations: the domain bundle, the options and the rainfall fields  *)
(* a run is started with.                                                  *)
(***************************************************************************)
\* A raster given by its rows, as a function of the cell <<row, col>>.
Raster(rows) == [x \in Cells(Len(rows), Len(rows[1])) |-> rows[x[1] + 1][x[2] + 1]]

Uniform(H, W, v) == [x \in Cells(H, W) |-> v]

\* A field that is v on cell at and 0 elsewhere.
Pulse(H, W, at, v) == [x \in Cells(H, W) |-> IF x = at THEN v ELSE Zero]

NoChannel == [present |-> FALSE]

\* The domain as read_domain_netcdf_rank0 hands it over: CN is 0 on inactive
\* cells and the channel mask lies inside the active mask.
Domain(H, W, d8, enc, cn, active, area, chan) ==
    [H |-> H, W |-> W, d8 |-> d8, d8_encoding |-> enc,
     cn |-> [x \in Cells(H, W) |-> IF active[x] THEN cn[x] ELSE Zero],
     active_mask |-> active, cell_area_m2 |-> area,
     channel_mask |-> IF chan.present
                      THEN [present |-> TRUE,
                            m |-> [x \in Cells(H, W) |-> chan.m[x] /\ active[x]]]
                      ELSE chan]

Options(dt, steps, ia, pv, tt, ttc, sink, every) ==
    [dt_s |-> R(dt), duration_s |-> R(dt * steps), ia_ratio |-> ia,
     target_volume_m3 |-> pv, travel_time_overland_s |-> R(tt),
     travel_time_channel_s |-> R(ttc), outflow_sink |-> sink,
     checkpoint_every_steps |-> every]

\* The risk options: risk.balance, risk.p_low, risk.p_high.
Risk(balance, p_low, p_high) == [balance |-> balance, p_low |-> p_low, p_high |-> p_high]

RiskA == Risk(<<1, 2>>, R(5), R(95))
RiskB == Risk(<<1, 4>>, R(10), R(90))
\* A balance outside [0,1] (clamped) and percentiles that coincide.
RiskC == Risk(<<3, 2>>, R(50), R(50))

\* rains is the rainfall sequence: rains[i] is the field of step i, the steps
\* after its end carry no rain.
Config(name, dom, opt, risk, rains) ==
    [name |-> name, dom |-> dom, opt |-> opt, risk |-> risk, rains |-> rains]

\* S1: 5x5, every cell drains east, the last column south, (4,4) is the outlet.
CfgS1(rains) ==
    Config("S1",
           Domain(5, 5,
                  Raster(<< <<1, 1, 1, 1, 4>>, <<1, 1, 1, 1, 4>>, <<1, 1, 1, 1, 4>>,
                            <<1, 1, 1, 1, 4>>, <<1, 1, 1, 1, 4>> >>),
                  "esri", Uniform(5, 5, R(100)), Uniform(5, 5, TRUE),
                  [scalar |-> TRUE, v |-> R(100)], NoChannel),
           Options(60, MaxSteps, <<1, 5>>, <<1, 10>>, 60, 60, TRUE, 4), RiskA, rains)

\* The rainfall of S1: one pulse of 10 mm on cell (0,0) at the first step.
RainS1 == << Pulse(5, 5, <<0, 0>>, R(10)) >>

\* S4: a column of 8 cells draining south.
CfgS4(sink, rains) ==
    Config("S4",
           Domain(8, 1, Uniform(8, 1, 4), "esri", Uniform(8, 1, R(80)),
                  Uniform(8, 1, TRUE), [scalar |-> TRUE, v |-> R(100)], NoChannel),
           Options(60, MaxSteps, <<1, 5>>, <<1, 2>>, 60, 60, sink, 3), RiskB, rains)

\* The rainfall of S4: a pulse of 25.4 mm on cell (0,0) at the first step.
RainS4 == << Pulse(8, 1, <<0, 0>>, <<127, 5>>) >>

\* 3x2 direction rasters: A drains south to the outlet (2,1); B drains north to
\* the outlet (0,0); C holds two cycles and no outlet.
D8A == Raster(<< <<4, 8>>, <<4, 16>>, <<1, 0>> >>)
D8B == Raster(<< <<0, 16>>, <<64, 64>>, <<64, 32>> >>)
D8C == Raster(<< <<1, 16>>, <<4, 64>>, <<1, 64>> >>)
\* A in the clockwise 0..7 encoding, the outlet marked by a code outside it.
D8Acw == Raster(<< <<2, 3>>, <<2, 4>>, <<0, 9>> >>)
\* No cell has a downstream cell: T by codes outside the table, Out by
\* directions that all leave the grid.
D8T == Uniform(3, 2, 0)
D8Out == Raster(<< <<16, 1>>, <<16, 1>>, <<8, 2>> >>)

CNmix == Raster(<< <<R(80), R(50)>>, <<R(100), R(80)>>, <<R(0), R(80)>> >>)
CN80 == Uniform(3, 2, R(80))

AllActive == Uniform(3, 2, TRUE)
Hole == Raster(<< <<TRUE, TRUE>>, <<FALSE, TRUE>>, <<TRUE, TRUE>> >>)

Area100 == [scalar |-> TRUE, v |-> R(100)]
AreaRows == [scalar |-> FALSE,
             v |-> Raster(<< <<R(100), R(100)>>, <<R(90), R(90)>>, <<R(80), R(80)>> >>)]

Chan == [present |-> TRUE,
         m |-> Raster(<< <<FALSE, FALSE>>, <<TRUE, FALSE>>, <<TRUE, TRUE>> >>)]

\* Rainfall sequences on the 3x2 grids, in mm per step (multiples of 12.7 mm),
\* from a uniform field U, a pulse on the cell at and the dry field.
RainSequences(at) ==
    LET U == Uniform(3, 2, <<381, 10>>)
        A == Pulse(3, 2, at, <<127, 2>>)
        D == Uniform(3, 2, Zero)
    IN  { <<U>>, <<U, A>>, <<A, U>>, <<A, D, A>>, <<D, U, U>> }

CfgG ==
    { Config("GA", Domain(3, 2, D8A, "esri", CN80, AllActive, Area100, NoChannel),
             Options(60, GSteps, <<1, 5>>, <<3, 10>>, 60, 60, sink, 2), RiskA, rains)
        : sink \in BOOLEAN, rains \in RainSequences(<<0, 1>>) }
    \cup
    { Config("GAmix", Domain(3, 2, D8A, "esri", CNmix, Hole, AreaRows, Chan),
             Options(60, GSteps, <<1, 5>>, <<3, 10>>, 180, 30, sink, 1), RiskB, rains)
        : sink \in BOOLEAN, rains \in RainSequences(<<0, 1>>) }
    \cup
    { Config("GB", Domain(3, 2, D8B, "esri", CN80, AllActive, AreaRows, NoChannel),
             Options(60, GSteps, <<1, 2>>, <<1, 5>>, 60, 60, sink, 2), RiskA, rains)
        : sink \in BOOLEAN, rains \in RainSequences(<<2, 1>>) }
    \cup
    { Config("GC", Domain(3, 2, D8C, "esri", CNmix, AllActive, Area100, NoChannel),
             Options(60, GSteps, Zero, <<1, 2>>, 60, 60, TRUE, 3), RiskC, rains)
        : rains \in RainSequences(<<0, 1>>) }
    \cup
    { Config("GAcw", Domain(3, 2, D8Acw, "cw0_7", CN80, Hole, Area100, Chan),
             Options(30, GSteps, <<1, 5>>, <<1, 4>>, 60, 30, TRUE, 0), RiskB, rains)
        : rains \in RainSequences(<<0, 1>>) }

\* The all-terminal grids, with either outflow policy.
CfgT ==
    { Config("GT", Domain(3, 2, d8, "esri", CNmix, AllActive, AreaRows, Chan),
             Options(60, GSteps, <<1, 5>>, <<3, 10>>, 60, 30, sink, 2), RiskA, rains)
        : d8 \in {D8T, D8Out}, sink \in BOOLEAN, rains \in RainSequences(<<0, 1>>) }

Configs ==
    {CfgS1(RainS1), CfgS1(<<Uniform(5, 5, Zero)>> \o RainS1)}
    \cup { CfgS4(sink, rains) : sink \in BOOLEAN,
                                rains \in {RainS4, RainS4 \o RainS4} }
    \cup CfgG
    \cup CfgT

(***************************************************************************)
(* State of a run.                                                         *)
(*                                                                         *)
(* The same configuration and rainfall are run side by side with every     *)
(* worker count N in 1..MaxWorkers: sim[N] runs without interruption,      *)
(* res[N] may be replaced at a checkpoint by the state reloaded from the   *)
(* restart bundle file[N].                                                 *)
(***************************************************************************)
VARIABLES
    cfg,        \* the configuration of the run
    state,      \* the driver's state
    idx,        \* the direction index [valid, ds_r, ds_c], built at initialisation
    nsteps,     \* the steps done
    ckpts,      \* checkpoints taken
    sim,        \* N -> the run with N workers
    res,        \* N -> the run with N workers that goes through checkpoints
    file,       \* N -> the restart bundle last written
    last,       \* N -> what the last step of sim[N] did, phase by phase
    cell,       \* one cell followed through the P and Q updates (SpecSCS)
    pc,         \* worker -> the phase or collective it is in (SpecGroup)
    stp,        \* worker -> the step it is in
    ran,        \* worker -> the phases it has begun in its step, in order
    status,     \* worker -> "running", "raised" or "aborted"
    containers, \* worker -> its particle container
    sendbuf,    \* worker -> the buffers it posted in its last all-to-all
    rain_sent,  \* the last step whose rainfall rank 0 has broadcast
    fault,      \* the fault the group is exposed to
    was,        \* the workers' positions and status when the group was aborted
    call        \* a function applied to inputs: the inputs, then its results

runvars == <<cfg, state, idx, nsteps, ckpts, sim, res, file, last>>
grpvars == <<pc, stp, ran, status, containers, sendbuf, rain_sent, fault, was>>
vars == <<runvars, cell, grpvars, call>>

\* The variables of the other specifications, at rest.
NoCell == [at |-> "none"]
NoCall == [at |-> "none"]
NoGroup ==
    /\ pc = <<>> /\ stp = <<>> /\ ran = <<>> /\ status = <<>> /\ containers = <<>>
    /\ sendbuf = <<>> /\ rain_sent = 0 /\ fault = "none" /\ was = <<>>
NoRun ==
    /\ cfg = <<>> /\ state = "UNINITIALIZED" /\ idx = <<>> /\ nsteps = 0 /\ ckpts = 0
    /\ sim = <<>> /\ res = <<>> /\ file = <<>> /\ last = <<>>

WorkerCounts == 1..MaxWorkers

\* A run before its first step: P, Q and the containers per rank, the accumulators.
ZeroWorld(N, H, W) ==
    [P |-> [k \in Ranks(N) |-> [x \in Cells(slab_counts(H, N)[k], W) |-> Zero]],
     Q |-> [k \in Ranks(N) |-> [x \in Cells(slab_counts(H, N)[k], W) |-> Zero]],
     particles |-> [k \in Ranks(N) |-> empty_particles],
     elapsed_s |-> Zero,
     cum_rain_vol_m3 |-> Zero,
     cum_runoff_vol_m3 |-> Zero,
     cum_outflow_vol_m3 |-> Zero]

\* What one step has rank k do up to the migration, from the rainfall field:
\* P update, Q update, spawn, advect, each phase from the result of the one before.

\* Phase 5: advect the container p1 one hop.
PhaseAdvect(P1, Q1, sp, p1, c, ix) ==
    [P |-> P1, Q |-> Q1, spawned |-> sp, before_advect |-> p1,
     advected |-> advect_particles_one_step(p1, ix.valid, ix.ds_r, ix.ds_c, c.opt.dt_s,
                      c.opt.travel_time_overland_s, c.opt.travel_time_channel_s,
                      c.dom.channel_mask, c.opt.outflow_sink)]

\* The new particles sp.p join the container of rank k.
PhaseJoin(k, w, P1, Q1, sp, c, ix) ==
    PhaseAdvect(P1, Q1, sp, concat_particles(w.particles[k], sp.p), c, ix)

\* Phase 4: spawn from dQ = max(0, Q_new - Q) in metres on the slab r0..r1-1.
PhaseSpawn(k, w, P1, Q1, r0, r1, c, ix) ==
    PhaseJoin(k, w, P1, Q1,
        spawn_particles_from_runoff_slab(
            [x \in DOMAIN Q1 |-> RMul(RMax(Zero, RSub(Q1[x], w.Q[k][x])), <<1, 1000>>)],
            r1 - r0, c.dom.W, r0, c.dom.cell_area_m2, c.opt.target_volume_m3,
            c.dom.active_mask),
        c, ix)

\* Phase 3: Q_new = SCS_CN(P, CN, ia_ratio) on the slab.
PhaseRunoff(k, w, P1, r0, r1, c, ix) ==
    PhaseSpawn(k, w, P1,
        Tabulate(scs_cn_cumulative_runoff_mm(
                     P1, [x \in DOMAIN P1 |-> c.dom.cn[<<x[1] + r0, x[2]>>]],
                     c.opt.ia_ratio)),
        r0, r1, c, ix)

\* Phase 2: P += rain on the active cells of the slab r0..r1-1 of rank k.
PhaseRain(k, w, rain, r0, r1, c, ix) ==
    PhaseRunoff(k, w,
        Tabulate([x \in Cells(r1 - r0, c.dom.W) |->
                     IF c.dom.active_mask[<<x[1] + r0, x[2]>>]
                     THEN RAdd(w.P[k][x], rain[<<x[1] + r0, x[2]>>]) ELSE w.P[k][x]]),
        r0, r1, c, ix)

StepLocal(N, k, w, rain, c, ix) ==
    PhaseRain(k, w, rain, slab_bounds(c.dom.H, N, k)[1], slab_bounds(c.dom.H, N, k)[2],
              c, ix)

\* The volume of a rainfall field over the active cells, in m3.
RainVolume(rain, c) ==
    LET cells == RowMajor(0, c.dom.H, c.dom.W)
        rr == [i \in 1..Len(cells) |-> cells[i][1]]
        cc == [i \in 1..Len(cells) |-> cells[i][2]]
        area == cell_area_at(c.dom.cell_area_m2, rr, cc)
    IN  RSum([i \in 1..Len(cells) |->
                 IF c.dom.active_mask[cells[i]]
                 THEN RMul(RMul(rain[cells[i]], <<1, 1000>>), area[i]) ELSE Zero])

\* The second half of a step, from what the ranks did locally (loc): the
\* particle migration and the reductions of the spawned and the outflow volume
\* into the accumulators. [w |-> the run after the step, h |-> what each phase
\* produced].
StepGlobal(N, w, rain, c, loc) ==
    [w |-> [P |-> [k \in Ranks(N) |-> loc[k].P],
            Q |-> [k \in Ranks(N) |-> loc[k].Q],
            particles |-> migrate_particles_slab(
                              [k \in Ranks(N) |-> loc[k].advected.p], c.dom.H, N),
            elapsed_s |-> RAdd(w.elapsed_s, c.opt.dt_s),
            cum_rain_vol_m3 |-> RAdd(w.cum_rain_vol_m3, RainVolume(rain, c)),
            cum_runoff_vol_m3 |->
                RAdd(w.cum_runoff_vol_m3,
                     RSum([i \in 1..N |-> loc[i - 1].spawned.total_vol])),
            cum_outflow_vol_m3 |->
                RAdd(w.cum_outflow_vol_m3,
                     RSum([i \in 1..N |-> loc[i - 1].advected.outflow_vol]))],
     h |-> [Q_before |-> w.Q,
            new |-> [k \in Ranks(N) |-> loc[k].spawned.p],
            before_advect |-> [k \in Ranks(N) |-> loc[k].before_advect],
            before_migrate |-> [k \in Ranks(N) |-> loc[k].advected.p],
            spawned_vol |-> RSum([i \in 1..N |-> loc[i - 1].spawned.total_vol]),
            outflow_vol |-> RSum([i \in 1..N |-> loc[i - 1].advected.outflow_vol])]]

\* One step of the driver on the run w with N workers.
StepWorld(N, w, rain, c, ix) ==
    StepGlobal(N, w, rain, c,
               Tabulate([k \in Ranks(N) |-> StepLocal(N, k, w, rain, c, ix)]))

\* Volume per cell to depth in m, on the slab starting at row r0.
FloodDepthSlab(volgrid, r0, cell_area_m2) ==
    [x \in DOMAIN volgrid |->
        RDiv(volgrid[x], IF cell_area_m2.scalar THEN cell_area_m2.v
                         ELSE cell_area_m2.v[<<x[1] + r0, x[2]>>])]

\* The restart bundle of a run: P, Q and the particles gathered on rank 0.
SaveWorld(N, w, c) ==
    save_restart_netcdf_rank0(
        w.elapsed_s, w.cum_rain_vol_m3, w.cum_runoff_vol_m3, w.cum_outflow_vol_m3,
        gather_field_slab_to_rank0(w.P, c.dom.H, c.dom.W, N),
        gather_field_slab_to_rank0(w.Q, c.dom.H, c.dom.W, N),
        gather_particles_to_rank0(w.particles, N))

\* A run resumed from a restart bundle: fields and particles scattered to
\* their owning ranks.
LoadWorld(N, ds, c) ==
    LET st == load_restart_netcdf_rank0(ds)
    IN  [P |-> scatter_field_slab(st.P_cum_mm, c.dom.H, c.dom.W, N),
         Q |-> scatter_field_slab(st.Q_cum_mm, c.dom.H, c.dom.W, N),
         particles |-> scatter_particles_from_rank0(
                           Particles(st.r, st.c, st.vol, st.tau), c.dom.H, N),
         elapsed_s |-> st.elapsed_s,
         cum_rain_vol_m3 |-> st.cum_rain_vol_m3,
         cum_runoff_vol_m3 |-> st.cum_runoff_vol_m3,
         cum_outflow_vol_m3 |-> st.cum_outflow_vol_m3]

\* The flood depth output of a run: per cell the volume of the particles on it
\* over the cell's area, computed per slab and gathered on rank 0.
FloodDepth(N, w, c) ==
    gather_field_slab_to_rank0(
        [k \in Ranks(N) |->
            FloodDepthSlab(local_volgrid_from_particles_slab(
                               w.particles[k], slab_bounds(c.dom.H, N, k)[1],
                               slab_bounds(c.dom.H, N, k)[2], c.dom.W),
                           slab_bounds(c.dom.H, N, k)[1], c.dom.cell_area_m2)],
        c.dom.H, c.dom.W, N)

\* The risk index output of a run, from the gathered Q and the flow accumulation.
RiskIndex(N, w, c) ==
    compute_risk_index(
        gather_field_slab_to_rank0(w.Q, c.dom.H, c.dom.W, N),
        compute_flow_accum_area_m2(c.dom.d8, c.dom.d8_encoding, c.dom.cell_area_m2,
                                   c.dom.active_mask, c.dom.H, c.dom.W),
        c.dom.active_mask, c.risk.balance, c.risk.p_low, c.risk.p_high,
        RowMajor(0, c.dom.H, c.dom.W))

NoHistory == [N \in WorkerCounts |-> [stepped |-> FALSE]]

Init ==
    /\ cfg \in Configs
    /\ state = "UNINITIALIZED"
    /\ idx = <<>>
    /\ nsteps = 0
    /\ ckpts = 0
    /\ sim = [N \in WorkerCounts |-> ZeroWorld(N, cfg.dom.H, cfg.dom.W)]
    /\ res = sim
    /\ file = <<>>
    /\ last = NoHistory
    /\ cell = NoCell
    /\ call = NoCall
    /\ NoGroup

\* Domain broadcast, direction graph build, slab decomposition.
Initialize ==
    /\ state = "UNINITIALIZED"
    /\ state' = "READY"
    /\ idx' = build_downstream_index(cfg.dom.d8, cfg.dom.d8_encoding, cfg.dom.H, cfg.dom.W)
    /\ UNCHANGED <<cfg, nsteps, ckpts, sim, res, file, last, cell, grpvars, call>>

\* The rainfall field of step i (from 1).
RainField(i) ==
    IF i <= Len(cfg.rains) THEN cfg.rains[i] ELSE Uniform(cfg.dom.H, cfg.dom.W, Zero)

\* A step-count boundary of the checkpoint schedule has been crossed and its
\* checkpoint is still to be written.
CheckpointDue ==
    /\ cfg.opt.checkpoint_every_steps > 0
    /\ nsteps \div cfg.opt.checkpoint_every_steps > ckpts

\* The runs after a step: a[N] is what the step made of sim[N], b[N] of res[N].
StepRuns(a, b) ==
    /\ sim' = [N \in WorkerCounts |-> a[N].w]
    /\ res' = [N \in WorkerCounts |-> b[N].w]
    /\ last' = [N \in WorkerCounts |-> [stepped |-> TRUE] @@ a[N].h]

\* One step of the driver loop, on every run.
Step ==
    /\ state \in {"READY", "RUNNING"}
    /\ ~CheckpointDue
    /\ RLt(sim[1].elapsed_s, cfg.opt.duration_s)
    /\ StepRuns(Tabulate([N \in WorkerCounts |->
                     StepWorld(N, sim[N], RainField(nsteps + 1), cfg, idx)]),
                Tabulate([N \in WorkerCounts |->
                     StepWorld(N, res[N], RainField(nsteps + 1), cfg, idx)]))
    /\ nsteps' = nsteps + 1
    /\ state' = "RUNNING"
    /\ UNCHANGED <<cfg, idx, ckpts, file, cell, grpvars, call>>

\* Gather and write the restart bundle.
Checkpoint ==
    /\ state = "RUNNING"
    /\ CheckpointDue
    /\ state' = "CHECKPOINTING"
    /\ ckpts' = ckpts + 1
    /\ file' = [N \in WorkerCounts |-> SaveWorld(N, res[N], cfg)]
    /\ UNCHANGED <<cfg, idx, nsteps, sim, res, last, cell, grpvars, call>>

\* After the write the run goes on: sim[N] as it is, res[N] as a run started
\* anew from the bundle.
Resume ==
    /\ state = "CHECKPOINTING"
    /\ state' = "RUNNING"
    /\ res' = [N \in WorkerCounts |-> LoadWorld(N, file[N], cfg)]
    /\ UNCHANGED <<cfg, idx, nsteps, ckpts, sim, file, last, cell, grpvars, call>>

\* A driver that stops at the first boundary without looking at the clock.
Finish_unclocked ==
    /\ state = "RUNNING"
    /\ ~CheckpointDue
    /\ state' = "FINAL"
    /\ UNCHANGED <<cfg, idx, nsteps, ckpts, sim, res, file, last, cell, grpvars, call>>

Finish ==
    /\ state = "RUNNING"
    /\ ~CheckpointDue
    /\ ~RLt(sim[1].elapsed_s, cfg.opt.duration_s)
    /\ state' = "FINAL"
    /\ UNCHANGED <<cfg, idx, nsteps, ckpts, sim, res, file, last, cell, grpvars, call>>

Next == Initialize \/ Step \/ Checkpoint \/ Resume \/ Finish

Spec == Init /\ [][Next]_vars

\* The driver loop is sequential and nothing suspends it: a run that can take a
\* transition takes one.
SpecRun ==
    Init /\ [][Next]_vars /\ ([]<>(state = "FINAL") \/ []<><<TRUE>>_<<state, nsteps>>)

(***************************************************************************)
(* SpecSCS: one active cell through the P update and the Q update of the   *)
(* steps, for any curve number, abstraction ratio and rainfall.            *)
(***************************************************************************)
\* Curve numbers: inside (0, 100], its ends, outside, non-finite.
CurveNumbers == {R(40), R(50), R(80), R(100), Zero, R(-10), R(120), NaN, PosInf}

\* ia_ratio: the default 0.2, other configured values, a negative one.
IaRatios == {Zero, <<1, 5>>, <<1, 2>>, <<-1, 5>>}

\* Cumulative precipitation the cell starts with (as from a restart bundle).
StartDepths == {Zero, <<-127, 10>>, NaN, PosInf}

\* Rainfall per step, in mm.
RainDepths == {Zero, R(10), <<127, 2>>}

\* float64 addition of a finite y.
FAdd(x, y) == IF IsFinite(x) THEN RAdd(x, y) ELSE x

InitSCS ==
    /\ cell \in [P : StartDepths, CN : CurveNumbers, ia_ratio : IaRatios,
                 Q : {Zero}, n : {0}, at : {"start"}]
    /\ NoRun
    /\ NoGroup
    /\ call = NoCall

\* Phase 2 on the cell: P += rain.
CellRain ==
    /\ cell.at \in {"start", "boundary"}
    /\ cell.n < SCSSteps
    /\ \E rain \in RainDepths :
          cell' = [cell EXCEPT !.P = FAdd(@, rain), !.n = @ + 1, !.at = "rained"]
    /\ UNCHANGED <<runvars, grpvars, call>>

\* Phase 3 on the cell: Q = SCS_CN(P, CN, ia_ratio); the step ends.
CellRunoff ==
    /\ cell.at = "rained"
    /\ cell' = [cell EXCEPT !.Q = scs_cell(cell.P, cell.CN, cell.ia_ratio),
                            !.at = "boundary"]
    /\ UNCHANGED <<runvars, grpvars, call>>

NextSCS == CellRain \/ CellRunoff

SpecSCS == InitSCS /\ [][NextSCS]_vars

(***************************************************************************)
(* SpecGroup: the workers of one group, each at its own pace through the   *)
(* phases of the steps, meeting only at the collectives. The group starts  *)
(* with particles in place and runs dry steps (no rainfall, so the P       *)
(* update, the Q update and the spawn leave the data alone) on a column of *)
(* 2 rows per worker draining south, with a checkpoint every second step.  *)
(***************************************************************************)
Workers == Ranks(GroupSize)

GroupRows == 2 * GroupSize

GroupIndex == build_downstream_index(Uniform(GroupRows, 1, 4), "esri", GroupRows, 1)

\* The seven phases of a step.
Phases == <<"rain", "P_update", "Q_update", "spawn", "advect", "migrate", "accumulate">>

\* The phase a position belongs to: the all-to-all of counts and of payload
\* are the collective of phase 6, the reduction of the accumulators and the
\* checkpoint gather those of phase 7.
PhaseOf ==
    [rain |-> 1, P_update |-> 2, Q_update |-> 3, spawn |-> 4, advect |-> 5,
     alltoall |-> 6, alltoallv |-> 6, reduce |-> 7, gather |-> 7, done |-> 7]

\* The position after a local phase.
AfterLocal == [P_update |-> "Q_update", Q_update |-> "spawn", spawn |-> "advect"]

\* The containers the group starts with: none; one particle on the last row of
\* every slab; two on the last row of rank 0's slab.
GroupLoads ==
    { [w \in Workers |-> empty_particles],
      [w \in Workers |->
          Particles(<<slab_bounds(GroupRows, GroupSize, w)[2] - 1>>, <<0>>,
                    <<R(1)>>, <<Zero>>)],
      [w \in Workers |->
          IF w = 0 THEN Particles(<<1, 1>>, <<0, 0>>, <<R(1), <<1, 2>>>>, <<Zero, Zero>>)
          ELSE empty_particles] }

\* What may go wrong: the rainfall read on rank 0, a received payload cut
\* short, the checkpoint write on rank 0.
Faults == {"none", "rain", "payload", "write"}

InitGroup ==
    /\ pc = [w \in Workers |-> "rain"]
    /\ stp = [w \in Workers |-> 1]
    /\ ran = [w \in Workers |-> <<1>>]
    /\ status = [w \in Workers |-> "running"]
    /\ containers \in GroupLoads
    /\ sendbuf = [w \in Workers |-> [dst \in Workers |-> <<>>]]
    /\ rain_sent = 0
    /\ fault \in Faults
    /\ was = <<>>
    /\ cell = NoCell
    /\ call = NoCall
    /\ NoRun

\* Worker v has reached one of the positions of step s, or is beyond that step.
Reached(v, s, positions) == stp[v] > s \/ (stp[v] = s /\ pc[v] \in positions)

InAlltoall == {"alltoall", "alltoallv", "reduce", "gather", "done"}
PastAlltoall == {"alltoallv", "reduce", "gather", "done"}
InReduce == {"reduce", "gather", "done"}
InGather == {"gather", "done"}

\* When each collective lets worker w go.
\* The rainfall broadcast: a receiver once rank 0 has sent; rank 0 at once.
Bcast_returns(w) == w = 0 \/ rain_sent >= stp[w]

\* An all-to-all that does not wait for the other workers.
Alltoall_unsynchronised(w) == TRUE

\* comm.Alltoall of the send counts: every worker's count is needed, so every
\* worker must have entered the exchange.
Alltoall_returns(w) == \A v \in Workers : Reached(v, stp[w], InAlltoall)

\* comm.Alltoallv of the payload: the workers with something for w must have
\* sent it.
Alltoallv_returns(w) ==
    \A v \in Workers : Len(sendbuf[v][w]) > 0 => Reached(v, stp[w], PastAlltoall)

\* The end-of-step reduction of the accumulators onto the driver: rank 0
\* needs every worker's contribution.
Reduce_returns(w) == w # 0 \/ \A v \in Workers : Reached(v, stp[w], InReduce)

\* The checkpoint's gather of the fields and of the particles onto rank 0;
\* the particles are gathered by an all-to-all (gather_particles_to_rank0),
\* whose exchange of counts needs every worker.
gather_returns(w) == \A v \in Workers : Reached(v, stp[w], InGather)

\* A checkpoint is due at the end of step s (checkpoint_every_steps = 2).
CheckpointStep(s) == s % 2 = 0

\* Worker w goes on to position `to`, beginning a phase if `to` lies in the next.
Advance(w, to) ==
    /\ pc' = [pc EXCEPT ![w] = to]
    /\ ran' = [ran EXCEPT ![w] = IF PhaseOf[to] > PhaseOf[pc[w]]
                                 THEN Append(@, PhaseOf[to]) ELSE @]

\* A fatal error on worker w.
Raise(w) == status' = [status EXCEPT ![w] = "raised"]

\* Only the worker that raised ends; the others are left as they are.
raiser_exits(st) == [w \in DOMAIN st |-> IF st[w] = "raised" THEN "aborted" ELSE st[w]]

\* The driver turns a fatal error into the abort of the whole group.
group_abort(st) == [w \in DOMAIN st |-> "aborted"]

\* Phase 1 on rank 0: acquire the rainfall of the step (the read may fail),
\* broadcast it.
AcquireRain ==
    /\ status[0] = "running"
    /\ pc[0] = "rain"
    /\ \E read \in (IF fault = "rain" THEN {"ok", "error"} ELSE {"ok"}) :
          IF read = "ok"
          THEN /\ rain_sent' = stp[0]
               /\ Advance(0, "P_update")
               /\ UNCHANGED status
          ELSE /\ Raise(0)
               /\ UNCHANGED <<pc, ran, rain_sent>>
    /\ UNCHANGED <<runvars, cell, call, stp, containers, sendbuf, fault, was>>

\* Phase 1 on the other workers: receive the broadcast.
ReceiveRain(w) ==
    /\ w # 0
    /\ status[w] = "running"
    /\ pc[w] = "rain"
    /\ Bcast_returns(w)
    /\ Advance(w, "P_update")
    /\ UNCHANGED <<runvars, cell, call, stp, status, containers, sendbuf, rain_sent, fault, was>>

\* Phases 2, 3 and 4: local to the worker's slab.
LocalPhase(w) ==
    /\ status[w] = "running"
    /\ pc[w] \in DOMAIN AfterLocal
    /\ Advance(w, AfterLocal[pc[w]])
    /\ UNCHANGED <<runvars, cell, call, stp, status, containers, sendbuf, rain_sent, fault, was>>

\* The worker holds p after its advection and enters the migration with it:
\* it packs its send buffers and posts them in the all-to-all.
PostBuffers(w, p) ==
    /\ containers' = [containers EXCEPT ![w] = p]
    /\ sendbuf' = [sendbuf EXCEPT ![w] = migrate_sendbuf(w, p, GroupRows, GroupSize)]

\* Phase 5, then the start of phase 6.
Advect(w) ==
    /\ status[w] = "running"
    /\ pc[w] = "advect"
    /\ PostBuffers(w, advect_particles_one_step(
                          containers[w], GroupIndex.valid, GroupIndex.ds_r,
                          GroupIndex.ds_c, R(60), R(60), R(60), NoChannel, TRUE).p)
    /\ Advance(w, "alltoall")
    /\ UNCHANGED <<runvars, cell, call, stp, status, rain_sent, fault, was>>

\* Phase 6: the exchange of the send counts.
ExchangeCounts(w) ==
    /\ status[w] = "running"
    /\ pc[w] = "alltoall"
    /\ Alltoall_returns(w)
    /\ Advance(w, "alltoallv")
    /\ UNCHANGED <<runvars, cell, call, stp, status, containers, sendbuf, rain_sent, fault, was>>

\* What worker w may receive: what was sent to it, or that cut short by one
\* float when the payload fault strikes.
Delivered(w, recvflat) ==
    IF fault = "payload" /\ Len(recvflat) > 0
    THEN {recvflat, SubSeq(recvflat, 1, Len(recvflat) - 1)}
    ELSE {recvflat}

\* Phase 6: the exchange of the payload, the sanity check, the rebuild.
ExchangePayload(w) ==
    /\ status[w] = "running"
    /\ pc[w] = "alltoallv"
    /\ Alltoallv_returns(w)
    /\ \E recvflat \in Delivered(w, alltoallv_float64(sendbuf, GroupSize)[w]) :
          IF migrate_payload_error(recvflat)
          THEN /\ Raise(w)
               /\ UNCHANGED <<pc, ran, containers>>
          ELSE /\ containers' =
                     [containers EXCEPT ![w] =
                         migrate_rebuild(
                             migrate_local(w, containers[w], GroupRows, GroupSize),
                             recvflat)]
               /\ Advance(w, "reduce")
               /\ UNCHANGED status
    /\ UNCHANGED <<runvars, cell, call, stp, sendbuf, rain_sent, fault, was>>

\* The step is over for worker w: on to the next one, or done.
EndStep(w) ==
    IF stp[w] < GroupSteps
    THEN /\ stp' = [stp EXCEPT ![w] = @ + 1]
         /\ pc' = [pc EXCEPT ![w] = "rain"]
         /\ ran' = [ran EXCEPT ![w] = <<1>>]
    ELSE /\ pc' = [pc EXCEPT ![w] = "done"]
         /\ UNCHANGED <<stp, ran>>

\* Phase 7: the accumulators; then the checkpoint if one is due.
Accumulate(w) ==
    /\ status[w] = "running"
    /\ pc[w] = "reduce"
    /\ Reduce_returns(w)
    /\ IF CheckpointStep(stp[w])
       THEN Advance(w, "gather") /\ UNCHANGED stp
       ELSE EndStep(w)
    /\ UNCHANGED <<runvars, cell, call, status, containers, sendbuf, rain_sent, fault, was>>

\* Phase 7: the checkpoint; rank 0 gathers and writes (the write may fail).
Checkpointing(w) ==
    /\ status[w] = "running"
    /\ pc[w] = "gather"
    /\ gather_returns(w)
    /\ \E write \in (IF w = 0 /\ fault = "write" THEN {"ok", "error"} ELSE {"ok"}) :
          IF write = "ok"
          THEN /\ EndStep(w)
               /\ UNCHANGED status
          ELSE /\ Raise(w)
               /\ UNCHANGED <<pc, stp, ran>>
    /\ UNCHANGED <<runvars, cell, call, containers, sendbuf, rain_sent, fault, was>>

\* The abort of the group after a fatal error on one of its workers.
GroupAbort ==
    /\ \E w \in Workers : status[w] = "raised"
    /\ status' = group_abort(status)
    /\ was' = [pc |-> pc, status |-> status]
    /\ UNCHANGED <<runvars, cell, call, pc, stp, ran, containers, sendbuf, rain_sent, fault>>

NextGroup ==
    \/ AcquireRain
    \/ \E w \in Workers : ReceiveRain(w)
    \/ \E w \in Workers : LocalPhase(w)
    \/ \E w \in Workers : Advect(w)
    \/ \E w \in Workers : ExchangeCounts(w)
    \/ \E w \in Workers : ExchangePayload(w)
    \/ \E w \in Workers : Accumulate(w)
    \/ \E w \in Workers : Checkpointing(w)
    \/ GroupAbort

\* The worker that raised is not blocked: its driver goes on to the abort.
SpecGroup == InitGroup /\ [][NextGroup]_vars /\ WF_vars(GroupAbort)

(***************************************************************************)
(* SpecRain: the rainfall acquisition from configured sources, then the P  *)
(* update and the Q update, repeated over the steps on a 1x2 grid.         *)
(***************************************************************************)
RainRows == 1
RainCols == 2

RainSource(kind, weight, mode, value, path, var, select, da) ==
    [kind |-> kind, weight |-> weight, mode |-> mode, value |-> value, path |-> path,
     var |-> var, select |-> select, da |-> da]

\* A field of the 1x2 grid from its two values.
Field2(a, b) == [x \in Cells(RainRows, RainCols) |-> IF x[2] = 0 THEN a ELSE b]

\* A time-indexed variable of three frames holding a missing value and a
\* negative one, its time axis in seconds. Depths are multiples of 12.7 mm.
Rain3D ==
    [ndim |-> 3, shape |-> <<RainRows, RainCols>>, datetime |-> TRUE,
     times |-> <<0, 60, 120>>,
     frames |-> << Field2(<<127, 10>>, NaN), Field2(R(-3), Zero),
                 Field2(<<127, 5>>, <<127, 10>>) >>]

\* A static variable, one whose time axis is not a datetime axis, one of the
\* wrong shape, one of four dimensions.
Rain2D ==
    [ndim |-> 2, shape |-> <<RainRows, RainCols>>, datetime |-> FALSE, times |-> <<>>,
     frames |-> << Field2(R(762), PosInf) >>]
RainUndated == [Rain3D EXCEPT !.datetime = FALSE]
RainMisshapen == [Rain2D EXCEPT !.shape = <<RainCols, RainRows>>]
Rain4D == [Rain2D EXCEPT !.ndim = 4]

\* The sources a configuration may list.
SourcePool ==
    { RainSource("scalar", R(1), "depth_mm_per_step", <<127, 5>>, "None", "None", "nearest", Absent),
      RainSource("scalar", <<1, 2>>, "intensity_mmph", R(762), "None", "None", "nearest", Absent),
      RainSource("scalar", R(-1), "depth_mm_per_step", <<127, 10>>, "None", "None", "nearest", Absent),
      RainSource("scalar", Zero, "depth_mm_per_step", None, "None", "None", "nearest", Absent),
      RainSource("scalar", R(1), "depth_mm_per_step", None, "None", "None", "nearest", Absent),
      RainSource("scalar", R(1), "mm_per_day", R(10), "None", "None", "nearest", Absent),
      RainSource("netcdf", R(1), "depth_mm_per_step", None, "rain.nc", "rain", "step", Rain3D),
      RainSource("netcdf", <<1, 2>>, "depth_mm_per_step", None, "rain.nc", "rain", "nearest", Rain3D),
      RainSource("netcdf", R(-2), "depth_mm_per_step", None, "rain.nc", "rain", "step", Rain3D),
      RainSource("netcdf", R(1), "intensity_mmph", None, "rain.nc", "rain", "nearest", Rain2D),
      RainSource("netcdf", R(1), "depth_mm_per_step", None, "rain.nc", "rain", "nearest", RainUndated),
      RainSource("netcdf", R(1), "depth_mm_per_step", None, "rain.nc", "rain", "step", RainMisshapen),
      RainSource("netcdf", R(1), "depth_mm_per_step", None, "rain.nc", "rain", "step", Rain4D),
      RainSource("netcdf", R(1), "depth_mm_per_step", None, "rain.nc", "None", "step", Rain2D),
      RainSource("netcdf", R(1), "depth_mm_per_step", None, "rain.nc", "rain", "step", Absent),
      RainSource("radar", R(1), "depth_mm_per_step", R(10), "None", "None", "nearest", Absent) }

\* The configured lists: one source, or two in either order.
SourceLists == { <<a>> : a \in SourcePool } \cup { <<a, b>> : a, b \in SourcePool }

\* The simulation time handed to the acquisition: none, or seconds on the time axis.
SimTimes == {None, <<0>>, <<100>>}

InitRain ==
    /\ cell \in [sources : SourceLists, dt_s : {R(60), R(120)},
                 CN : {Field2(R(80), R(50))}, ia_ratio : {<<1, 5>>},
                 P : {Field2(Zero, Zero)}, Q : {Field2(Zero, Zero)},
                 P_before : {Field2(Zero, Zero)}, Q_before : {Field2(Zero, Zero)},
                 rain : {Field2(Zero, Zero)}, n : {0}, at : {"start"}]
    /\ NoRun
    /\ NoGroup
    /\ call = NoCall

\* Phase 2 on the grid, from the blended field.
RainOnto(total) ==
    cell' = [cell EXCEPT !.P_before = cell.P, !.Q_before = cell.Q, !.rain = total,
                         !.P = [x \in DOMAIN cell.P |-> RAdd(cell.P[x], total[x])],
                         !.n = @ + 1, !.at = "rained"]

\* Phases 1 and 2: the blended rainfall of step n (from 0) is added to P; an
\* error raised by the acquisition ends the run.
RainAcquire ==
    /\ cell.at \in {"start", "boundary"}
    /\ cell.n < RainSteps
    /\ \E sim_time \in SimTimes :
          IF blended_rain_step_mm_rank0(cell.sources, RainRows, RainCols, cell.dt_s,
                                        cell.n, sim_time).ok
          THEN RainOnto(blended_rain_step_mm_rank0(cell.sources, RainRows, RainCols,
                                                   cell.dt_s, cell.n, sim_time).total)
          ELSE cell' = [cell EXCEPT !.at = "failed"]
    /\ UNCHANGED <<runvars, grpvars, call>>

\* Phase 3 on the grid; the step ends.
RainRunoff ==
    /\ cell.at = "rained"
    /\ cell' = [cell EXCEPT !.Q = scs_cn_cumulative_runoff_mm(cell.P, cell.CN, cell.ia_ratio),
                            !.at = "boundary"]
    /\ UNCHANGED <<runvars, grpvars, call>>

NextRain == RainAcquire \/ RainRunoff

SpecRain == InitRain /\ [][NextRain]_vars

(***************************************************************************)
(* SpecConfig: a configuration (direction encoding, rainfall sources) is   *)
(* taken through the initialisation and the rainfall acquisitions of the   *)
(* first steps.                                                            *)
(***************************************************************************)
InitConfig ==
    /\ call \in [encoding : {"esri", "cw0_7", "0_7", "taudem"}, sources : SourceLists,
                 dt_s : {R(60)}, sim_time : SimTimes, steps : {0}, at : {"UNINITIALIZED"}]
    /\ NoRun
    /\ NoGroup
    /\ cell = NoCell

\* The direction graph build of the initialisation: an unknown encoding raises.
ConfigInitialize ==
    /\ call.at = "UNINITIALIZED"
    /\ call' = [call EXCEPT !.at = IF d8_encoding_known(call.encoding) THEN "READY"
                                   ELSE "rejected"]
    /\ UNCHANGED <<runvars, cell, grpvars>>

\* A step: its rainfall acquisition raises, or the step runs.
ConfigStep ==
    /\ call.at \in {"READY", "RUNNING"}
    /\ call.steps < RainSteps
    /\ call' = IF blended_rain_step_mm_rank0(call.sources, RainRows, RainCols, call.dt_s,
                                             call.steps, call.sim_time).ok
               THEN [call EXCEPT !.at = "RUNNING", !.steps = @ + 1]
               ELSE [call EXCEPT !.at = "rejected"]
    /\ UNCHANGED <<runvars, cell, grpvars>>

NextConfig == ConfigInitialize \/ ConfigStep

SpecConfig == InitConfig /\ [][NextConfig]_vars

(***************************************************************************)
(* SpecSlab: the slab decomposition applied to any row count and any       *)
(* worker count, then the owner lookup applied to every row.               *)
(***************************************************************************)
InitSlab ==
    /\ call \in [nrows : 0..MaxRows, size : 1..MaxRanks, at : {"input"}]
    /\ NoRun
    /\ NoGroup
    /\ cell = NoCell

\* slab_bounds(nrows, size, rank) for every rank.
CallSlabBounds ==
    /\ call.at = "input"
    /\ call' = [nrows |-> call.nrows, size |-> call.size, at |-> "bounds",
                counts |-> slab_counts(call.nrows, call.size),
                bounds |-> [k \in Ranks(call.size) |->
                               slab_bounds(call.nrows, call.size, k)]]
    /\ UNCHANGED <<runvars, cell, grpvars>>

\* rank_of_row(r, nrows, size) for the array r of all rows.
CallRankOfRow ==
    /\ call.at = "bounds"
    /\ call' = [call EXCEPT !.at = "owners"]
                 @@ [owner |-> [r \in 0..(call.nrows - 1) |->
                                   rank_of_row(r, call.nrows, call.size)]]
    /\ UNCHANGED <<runvars, cell, grpvars>>

NextSlab == CallSlabBounds \/ CallRankOfRow

SpecSlab == InitSlab /\ [][NextSlab]_vars

(***************************************************************************)
(* SpecD8: the direction index and the flow accumulation applied to        *)
(* direction rasters: a background direction with one cell of any code,    *)
(* with or without an inactive cell, and a few rasters given in full.      *)
(***************************************************************************)
\* The codes a cell may hold: those of both tables and codes of neither.
D8Codes == (DOMAIN ESRI_OFFSETS) \cup (DOMAIN CW0_7_OFFSETS) \cup {-1, 9, 255}

\* East and south in the encoding.
Background(encoding) == IF encoding = "esri" THEN {1, 4} ELSE {0, 2}

\* Cell areas: a scalar, or a raster with a different area on every cell.
Area1 == [scalar |-> TRUE, v |-> R(1)]
AreaEach(H, W) == [scalar |-> FALSE, v |-> [x \in Cells(H, W) |-> R(x[1] * W + x[2] + 1)]]

D8Input(d8, encoding, H, W, area, active) ==
    [d8 |-> d8, encoding |-> encoding, nrows |-> H, ncols |-> W,
     cell_area_m2 |-> area, active_mask |-> active, at |-> "input"]

\* Rasters with one cell off the background direction; no cell is inactive,
\* or the first, or the last.
D8Varied ==
    UNION { { D8Input([x \in Cells(H, W) |-> IF x = at THEN code ELSE bg], encoding, H, W,
                      area, [x \in Cells(H, W) |-> x # hole])
                : at \in Cells(H, W), hole \in {<<-1, -1>>, <<0, 0>>, <<H - 1, W - 1>>},
                  code \in D8Codes, bg \in Background(encoding),
                  area \in {Area1, AreaEach(H, W)} }
            : H \in 1..MaxD8Rows, W \in 1..MaxD8Cols, encoding \in {"esri", "cw0_7"} }

\* A ring of four cells, and the ring with a tributary and an outlet beside it.
D8Ring == Raster(<< <<1, 4>>, <<64, 16>> >>)
D8RingFed == Raster(<< <<1, 4, 16>>, <<64, 16, 1>> >>)

\* Rasters given in full: a 1x10 row draining east, the 3x2 rasters of the
\* runs, the rings.
D8Given ==
    { D8Input(Uniform(1, 10, 1), "esri", 1, 10, Area1, Uniform(1, 10, TRUE)),
      D8Input(D8A, "esri", 3, 2, Area100, AllActive),
      D8Input(D8A, "esri", 3, 2, AreaRows, Hole),
      D8Input(D8B, "esri", 3, 2, AreaRows, AllActive),
      D8Input(D8C, "esri", 3, 2, Area100, AllActive),
      D8Input(D8Acw, "cw0_7", 3, 2, Area100, Hole),
      D8Input(D8Ring, "esri", 2, 2, Area1, Uniform(2, 2, TRUE)),
      D8Input(D8Ring, "esri", 2, 2, Area1, [x \in Cells(2, 2) |-> x # <<1, 1>>]),
      D8Input(D8RingFed, "esri", 2, 3, AreaEach(2, 3), Uniform(2, 3, TRUE)) }

InitD8 ==
    /\ call \in D8Varied \cup D8Given
    /\ NoRun
    /\ NoGroup
    /\ cell = NoCell

\* build_downstream_index(d8, encoding).
CallBuildIndex ==
    /\ call.at = "input"
    /\ call' = [call EXCEPT !.at = "index"]
                 @@ [ix |-> build_downstream_index(call.d8, call.encoding,
                                                   call.nrows, call.ncols)]
    /\ UNCHANGED <<runvars, cell, grpvars>>

\* What compute_flow_accum_area_m2 leaves when it returns: acc, the in-degrees
\* of its sweep, and the records it has logged (it has no logging statement).
flow_accum_call(d8, encoding, cell_area_m2, active_mask, nrows, ncols) ==
    [log |-> <<>>]
        @@ flow_accum_indeg(cell_area_m2, active_mask, nrows, ncols,
                            build_downstream_index(d8, encoding, nrows, ncols))

\* compute_flow_accum_area_m2(d8, encoding, cell_area_m2, active_mask).
CallFlowAccum ==
    /\ call.at = "index"
    /\ call' = [call EXCEPT !.at = "accum"]
                 @@ flow_accum_call(call.d8, call.encoding, call.cell_area_m2,
                                    call.active_mask, call.nrows, call.ncols)
    /\ UNCHANGED <<runvars, cell, grpvars>>

NextD8 == CallBuildIndex \/ CallFlowAccum

SpecD8 == InitD8 /\ [][NextD8]_vars

(***************************************************************************)
(* SpecSweep: the sweep of compute_flow_accum_area_m2 with the ready cells *)
(* taken from the work list in any order.                                  *)
(***************************************************************************)
\* Every 2x2 raster of the directions east, south, west, north and none, all
\* cells active or the first inactive, and the rasters given in full.
SweepInputs ==
    { D8Input(d8, "esri", 2, 2, AreaEach(2, 2), [x \in Cells(2, 2) |-> x # hole])
        : d8 \in [Cells(2, 2) -> {1, 4, 16, 64, 0}], hole \in {<<-1, -1>>, <<0, 0>>} }
    \cup D8Given

InitSweep ==
    /\ call \in SweepInputs
    /\ NoRun
    /\ NoGroup
    /\ cell = NoCell

\* The function up to its loop; ref is what it returns with the source's order.
SweepStart ==
    /\ call.at = "input"
    /\ call' = [call EXCEPT !.at = "sweep"]
                 @@ sweep_start(call.cell_area_m2, call.active_mask, call.nrows, call.ncols,
                        build_downstream_index(call.d8, call.encoding, call.nrows, call.ncols))
                 @@ [ix |-> build_downstream_index(call.d8, call.encoding,
                                                   call.nrows, call.ncols),
                     ref |-> flow_accum_indeg(call.cell_area_m2, call.active_mask,
                                 call.nrows, call.ncols,
                                 build_downstream_index(call.d8, call.encoding,
                                                        call.nrows, call.ncols))]
    /\ UNCHANGED <<runvars, cell, grpvars>>

\* One pass of the loop on any cell of the work list.
SweepTake ==
    /\ call.at = "sweep"
    /\ \E i \in 1..Len(call.work) :
          call' = sweep_take(call.acc, call.indeg, call.work, call.taken, i,
                             call.active_mask, call.ix) @@ call
    /\ UNCHANGED <<runvars, cell, grpvars>>

\* The work list is empty: the function returns.
SweepReturn ==
    /\ call.at = "sweep"
    /\ Len(call.work) = 0
    /\ call' = [call EXCEPT !.at = "swept"]
    /\ UNCHANGED <<runvars, cell, grpvars>>

NextSweep == SweepStart \/ SweepTake \/ SweepReturn

SpecSweep == InitSweep /\ [][NextSweep]_vars

(***************************************************************************)
(* SpecNorm: the percentile normalisation applied to fields on a row of    *)
(* ten cells, for several masks and percentile pairs.                      *)
(***************************************************************************)
\* The field 10, 20, ..., 100, the same in descending order, with a missing
\* value, and a constant field.
FieldS5 == [x \in Cells(1, 10) |-> R(10 * (x[2] + 1))]
FieldS5Down == [x \in Cells(1, 10) |-> R(10 * (10 - x[2]))]
FieldS5Gap == [FieldS5 EXCEPT ![<<0, 4>>] = NaN]
FieldFlat == [x \in Cells(1, 10) |-> R(30)]

\* Every cell active, or all but one.
NormMasks ==
    {[x \in Cells(1, 10) |-> x # hole] : hole \in Cells(1, 10) \cup {<<-1, -1>>}}

InitNorm ==
    /\ call \in [a : {FieldS5, FieldS5Down, FieldS5Gap, FieldFlat}, mask : NormMasks,
                 p_low : {R(0), R(1), R(10), R(50)}, p_high : {R(50), R(90), R(99), R(100)},
                 at : {"input"}]
    /\ NoRun
    /\ NoGroup
    /\ cell = NoCell

\* robust_normalize(a, mask, p_low, p_high), with the percentiles it computed.
CallRobustNormalize ==
    /\ call.at = "input"
    /\ call' = [call EXCEPT !.at = "normalized"]
                 @@ [norm |-> robust_normalize(call.a, call.mask, call.p_low, call.p_high,
                                               RowMajor(0, 1, 10)),
                     lo |-> nanpercentile(Sorted(masked_values(call.a, call.mask,
                                                               RowMajor(0, 1, 10))),
                                          call.p_low),
                     hi |-> nanpercentile(Sorted(masked_values(call.a, call.mask,
                                                               RowMajor(0, 1, 10))),
                                          call.p_high)]
    /\ UNCHANGED <<runvars, cell, grpvars>>

NextNorm == CallRobustNormalize

SpecNorm == InitNorm /\ [][NextNorm]_vars

(***************************************************************************)
(* SpecCache: calls of xr_open_cached and xr_close_cache in any order.     *)
(***************************************************************************)
CachePaths == {"radar.nc", "gauge.nc"}

InitCache ==
    /\ call = [cache |-> [q \in CachePaths |-> 0], handles |-> <<>>, op |-> "none",
               path |-> "none", ret |-> 0, n |-> 0, at |-> "cache"]
    /\ NoRun
    /\ NoGroup
    /\ cell = NoCell

\* xr_open_cached(path); an exception of xr.open_dataset reaches the caller.
CacheOpen ==
    /\ call.at = "cache"
    /\ call.n < MaxCacheCalls
    /\ \E path \in CachePaths, opens \in BOOLEAN :
          call' = [cache |-> xr_open_cached(call.cache, call.handles, path, opens).cache,
                   handles |-> xr_open_cached(call.cache, call.handles, path, opens).handles,
                   op |-> "open", path |-> path,
                   ret |-> xr_open_cached(call.cache, call.handles, path, opens).ret,
                   n |-> call.n + 1,
                   at |-> IF xr_open_cached(call.cache, call.handles, path, opens).raised
                          THEN "raised" ELSE "cache"]
    /\ UNCHANGED <<runvars, cell, grpvars>>

\* xr_close_cache().
CacheClose ==
    /\ call.at = "cache"
    /\ call.n < MaxCacheCalls
    /\ \E raising \in SUBSET ({call.cache[q] : q \in CachePaths} \ {0}) :
          call' = [cache |-> xr_close_cache(call.cache, call.handles, raising).cache,
                   handles |-> xr_close_cache(call.cache, call.handles, raising).handles,
                   op |-> "close", path |-> "none", ret |-> 0, n |-> call.n + 1,
                   at |-> "cache"]
    /\ UNCHANGED <<runvars, cell, grpvars>>

NextCache == CacheOpen \/ CacheClose

SpecCache == InitCache /\ [][NextCache]_vars

(***************************************************************************)
(* SpecSpawn: the spawn on a slab of two rows of a 3x2 grid.               *)
(***************************************************************************)
\* Runoff depths of a cell in m: none, negative, and depths whose volume on
\* 100 m2 is 0.5, 1.5 and 2.5 m3.
SpawnDepths == {Zero, <<-1, 100>>, <<1, 200>>, <<3, 200>>, <<1, 40>>}

InitSpawn ==
    /\ call \in [depth : [Cells(2, 2) -> SpawnDepths], r0 : {0, 1},
                 cell_area_m2 : {Area100, AreaRows}, particle_vol_m3 : {R(1), <<1, 2>>},
                 active_mask : {AllActive, Hole}, at : {"input"}]
    /\ NoRun
    /\ NoGroup
    /\ cell = NoCell

\* spawn_particles_from_runoff_slab on the slab of rows r0, r0 + 1.
CallSpawn ==
    /\ call.at = "input"
    /\ call' = [call EXCEPT !.at = "spawned"]
                 @@ [out |-> spawn_particles_from_runoff_slab(call.depth, 2, 2, call.r0,
                                 call.cell_area_m2, call.particle_vol_m3, call.active_mask)]
    /\ UNCHANGED <<runvars, cell, grpvars>>

NextSpawn == CallSpawn

SpecSpawn == InitSpawn /\ [][NextSpawn]_vars

(***************************************************************************)
(* SpecAdvect: containers of two workers on a 2x3 grid, advected and       *)
(* migrated in turn.                                                       *)
(***************************************************************************)
\* (1,1) -> (1,0) -> (0,0) -> (0,1) -> (0,2); (0,2) holds a code outside the
\* table and (1,2) points out of the grid. (1,0) and (0,1) are channel cells.
AdvD8 == Raster(<< <<1, 1, 0>>, <<64, 16, 1>> >>)
AdvIndex == build_downstream_index(AdvD8, "esri", 2, 3)
AdvChan == [present |-> TRUE, m |-> Raster(<< <<FALSE, TRUE, FALSE>>, <<TRUE, FALSE, FALSE>> >>)]
AdvOptions == [dt_s |-> R(30), travel_time_s |-> R(60), travel_time_channel_s |-> R(30)]

\* A particle starts on a cell that drains to a channel cell, on one that
\* drains to a terminal cell or on a terminal cell; its tau runs out at the
\* first call, at the third, or is far below zero.
AdvCells == {<<1, 1>>, <<0, 1>>, <<0, 2>>}
AdvTaus == {R(30), R(90), R(-200)}

\* The containers of up to MaxParticles particles; particle i has volume i.
AdvContainerOf(L) ==
    Particles([i \in 1..Len(L) |-> L[i][1][1]], [i \in 1..Len(L) |-> L[i][1][2]],
              [i \in 1..Len(L) |-> R(i)], [i \in 1..Len(L) |-> L[i][2]])
AdvContainers ==
    UNION { {AdvContainerOf(L) : L \in [1..n -> AdvCells \X AdvTaus]} : n \in 0..MaxParticles }

\* The particles of p on the slab of rank k of 2.
AdvSlab(p, k) == MaskParticles(p, [i \in 1..Len(p.r) |-> rank_of_row(p.r[i], 2, 2) = k])

AdvStart(p, chan, sink) ==
    [chan |-> chan, sink |-> sink,
     parts |-> [k \in Ranks(2) |-> AdvSlab(p, k)],
     before |-> [k \in Ranks(2) |-> AdvSlab(p, k)],
     out |-> [k \in Ranks(2) |-> [p |-> AdvSlab(p, k), outflow_vol |-> Zero, nhops |-> 0]],
     count0 |-> Len(p.r), n |-> 0, at |-> "settled"]

InitAdvect ==
    /\ call \in {AdvStart(p, chan, sink) :
                    p \in AdvContainers, chan \in {NoChannel, AdvChan}, sink \in BOOLEAN}
    /\ NoRun
    /\ NoGroup
    /\ cell = NoCell

\* Every worker advects its container once.
advect_call(parts, chan, sink) ==
    [k \in Ranks(2) |->
        advect_particles_one_step(parts[k], AdvIndex.valid, AdvIndex.ds_r, AdvIndex.ds_c,
            AdvOptions.dt_s, AdvOptions.travel_time_s, AdvOptions.travel_time_channel_s,
            chan, sink)]

CallAdvect ==
    /\ call.at = "settled"
    /\ call.n < AdvectCalls
    /\ call' = [call EXCEPT !.before = call.parts,
                            !.out = advect_call(call.parts, call.chan, call.sink),
                            !.parts = [k \in Ranks(2) |->
                                          advect_call(call.parts, call.chan, call.sink)[k].p],
                            !.n = @ + 1, !.at = "advected"]
    /\ UNCHANGED <<runvars, cell, grpvars>>

\* The particles that left their worker's slab are handed over.
CallMigrate ==
    /\ call.at = "advected"
    /\ call' = [call EXCEPT !.parts = migrate_particles_slab(call.parts, 2, 2),
                            !.at = "settled"]
    /\ UNCHANGED <<runvars, cell, grpvars>>

\* The deposition grid of every worker, from the container it holds.
CallDeposit ==
    /\ call.at \in {"settled", "advected"}
    /\ call' = [call EXCEPT !.at = "deposited"]
                 @@ [grid |-> [k \in Ranks(2) |->
                                 local_volgrid_from_particles_slab(call.parts[k],
                                     slab_bounds(2, 2, k)[1], slab_bounds(2, 2, k)[2], 3)]]
    /\ UNCHANGED <<runvars, cell, grpvars>>

NextAdvect == CallAdvect \/ CallMigrate \/ CallDeposit

SpecAdvect == InitAdvect /\ [][NextAdvect]_vars

(***************************************************************************)
(* src/utils/alert_generator.py: alert de-duplication in main.             *)
(***************************************************************************)
MaxAlertRuns == 2
MaxFeatures == 2

\* The rules of a run: name, property, operator, value and desired channels.
AlertRules == << [name |-> "high", prop |-> "depth", op |-> ">=", value |-> 5, channels |-> {"email", "rest"}], [name |-> "wet", prop |-> "depth", op |-> ">", value |-> 0, channels |-> {"rest"}] >>

\* The channels in the order main appends them to `possible`.
AlertChannels == <<"email", "rest">>

\* A feature: its id (empty when the feature has none), the value of its
\* property, and the contacts and endpoints its properties hold.
AlertFeatures == [fid : {"a", ""}, depth : {0, 3, 5}, contacts : {{}, {"email"}, {"email", "rest"}}]

\* The identities an alert can have.
AlertIds == {"a", ""} \X {"high", "wet"} \X {"depth"} \X {">=", ">"} \X {5, 0} \X {3, 5}

\* The dedupe file: missing, unparsable, or a JSON object with or without
\* the "sent" key.
NoSentKey == [has_sent |-> FALSE, sent |-> {}]

EmptySent == [has_sent |-> TRUE, sent |-> {}]

DedupeFiles == { [kind |-> "missing", state |-> NoSentKey], [kind |-> "corrupt", state |-> NoSentKey], [kind |-> "json", state |-> NoSentKey], [kind |-> "json", state |-> EmptySent] }

\* _compare on the numeric operators.
compare(actual, op, rule_value) == IF op = ">" THEN actual > rule_value ELSE IF op = ">=" THEN actual >= rule_value ELSE FALSE

\* load_dedupe: {"sent": {}} when there is no path, no file or no parse.
load_dedupe(path, dedupe_file) == IF path = "" \/ dedupe_file.kind = "missing" \/ dedupe_file.kind = "corrupt" THEN EmptySent ELSE dedupe_file.state

\* dedupe_state.setdefault("sent", {}).
setdefault_sent(dedupe_state) == IF dedupe_state.has_sent THEN dedupe_state ELSE EmptySent

\* save_dedupe: nothing without a path; else the state replaces the file,
\* and a failed write of the temporary file leaves the file as it was.
save_dedupe(path, dedupe_file, dedupe_state, written) == IF path = "" \/ ~written THEN dedupe_file ELSE [kind |-> "json", state |-> dedupe_state]

\* make_alert_id: the digest of fid|name|prop|op|value|actual, kept as the
\* tuple it is the digest of.
make_alert_id(feature, rule, actual) == <<feature.fid, rule.name, rule.prop, rule.op, rule.value, actual>>

\* The channels a rule desires, the feature has a route for and the
\* configuration enables, in the order main appends them.
possible_channels(feature, rule, enabled) == SelectSeq(AlertChannels, LAMBDA ch : ch \in rule.channels /\ ch \in feature.contacts /\ ch \in enabled)

\* The outcome of one pass of the rule loop that reached the dispatch.
alert_dispatch(sent_map, dedupe_enabled, alert_id, possible, failing) == [sent_map |-> IF dedupe_enabled THEN sent_map \cup {alert_id} ELSE sent_map, tried |-> possible, delivered |-> Len(SelectSeq(possible, LAMBDA ch : ch \notin failing)), out |-> "dispatched", id |-> alert_id]

\* A pass that ends at one of the `continue` statements of the rule loop.
alert_skip(sent_map, alert_id, why) == [sent_map |-> sent_map, tried |-> <<>>, delivered |-> 0, out |-> why, id |-> alert_id]

\* The rule loop recording an alert only when a delivery succeeded.
alert_rule_delivered_only(sent_map, dedupe_enabled, dry_run, feature, rule, enabled, failing) ==
    LET id == make_alert_id(feature, rule, feature.depth)
        possible == possible_channels(feature, rule, enabled)
        sent == alert_dispatch(sent_map, dedupe_enabled, id, possible, failing)
    IN  IF ~compare(feature.depth, rule.op, rule.value) THEN alert_skip(sent_map, id, "unmatched")
        ELSE IF dedupe_enabled /\ id \in sent_map THEN alert_skip(sent_map, id, "skipped_dedupe")
        ELSE IF possible = <<>> THEN alert_skip(sent_map, id, "missing_route")
        ELSE IF dry_run THEN alert_skip(sent_map, id, "dry_run")
        ELSE IF sent.delivered = 0 THEN [sent EXCEPT !.sent_map = sent_map]
        ELSE sent

\* One pass of `for rule in rules` for a feature: compare, de-duplicate,
\* find the routes, stop in a dry run, else try every channel and record.
alert_rule(sent_map, dedupe_enabled, dry_run, feature, rule, enabled, failing) ==
    LET id == make_alert_id(feature, rule, feature.depth)
        possible == possible_channels(feature, rule, enabled)
    IN  IF ~compare(feature.depth, rule.op, rule.value) THEN alert_skip(sent_map, id, "unmatched")
        ELSE IF dedupe_enabled /\ id \in sent_map THEN alert_skip(sent_map, id, "skipped_dedupe")
        ELSE IF possible = <<>> THEN alert_skip(sent_map, id, "missing_route")
        ELSE IF dry_run THEN alert_skip(sent_map, id, "dry_run")
        ELSE alert_dispatch(sent_map, dedupe_enabled, id, possible, failing)

(***************************************************************************)
(* SpecAlert: runs of main, one after the other, on one dedupe file.       *)
(***************************************************************************)
NoPass == alert_skip({}, <<>>, "none")

NoFeature == [fid |-> "", depth |-> 0, contacts |-> {}]

InitAlert ==
    /\ call \in [file : DedupeFiles, sent_map : {{}}, dedupe_enabled : {TRUE}, dry_run : {TRUE},
                 dedupe_path : {""}, enabled : {{}}, feat : {NoFeature}, nfeat : {0}, j : {0},
                 pass : {NoPass}, run : {0}, at : {"exit"}]
    /\ NoRun
    /\ NoGroup
    /\ cell = NoCell

\* main up to the feature loop: the configuration and the dedupe state.
AlertMain ==
    /\ call.at = "exit"
    /\ call.run < MaxAlertRuns
    /\ \E dedupe_enabled \in BOOLEAN, dry_run \in BOOLEAN, path \in {"", ".alerts_sent.json"}, enabled \in {{"rest"}, {"email", "rest"}} :
          call' = [call EXCEPT !.dedupe_enabled = dedupe_enabled, !.dry_run = dry_run,
                               !.dedupe_path = path, !.enabled = enabled,
                               !.sent_map = IF dedupe_enabled
                                            THEN setdefault_sent(load_dedupe(path, call.file)).sent
                                            ELSE {},
                               !.feat = NoFeature, !.nfeat = 0, !.j = 0, !.pass = NoPass,
                               !.run = call.run + 1, !.at = "features"]
    /\ UNCHANGED <<runvars, cell, grpvars>>

\* `for feat in features`: the next feature of the input.
AlertFeature ==
    /\ call.at = "features"
    /\ call.nfeat < MaxFeatures
    /\ \E feat \in AlertFeatures :
          call' = [call EXCEPT !.feat = feat, !.nfeat = call.nfeat + 1, !.j = 1,
                               !.pass = NoPass, !.at = "rules"]
    /\ UNCHANGED <<runvars, cell, grpvars>>

\* `for rule in rules`: one pass, the deliveries of `failing` raising.
AlertRule ==
    /\ call.at = "rules"
    /\ \E failing \in SUBSET {"email", "rest"} :
          call' = [call EXCEPT !.pass = alert_rule(call.sent_map, call.dedupe_enabled, call.dry_run, call.feat, AlertRules[call.j], call.enabled, failing),
                               !.sent_map = alert_rule(call.sent_map, call.dedupe_enabled, call.dry_run, call.feat, AlertRules[call.j], call.enabled, failing).sent_map,
                               !.j = call.j + 1,
                               !.at = IF call.j = Len(AlertRules) THEN "features" ELSE "rules"]
    /\ UNCHANGED <<runvars, cell, grpvars>>

\* The end of the feature loop: the dedupe state is saved and main returns,
\* or the write raises and the file stays.
AlertSave ==
    /\ call.at = "features"
    /\ \E written \in BOOLEAN :
          call' = [call EXCEPT !.file = IF call.dedupe_enabled
                                        THEN save_dedupe(call.dedupe_path, call.file, [has_sent |-> TRUE, sent |-> call.sent_map], written)
                                        ELSE call.file,
                               !.pass = NoPass, !.at = "exit"]
    /\ UNCHANGED <<runvars, cell, grpvars>>

NextAlert == AlertMain \/ AlertFeature \/ AlertRule \/ AlertSave

SpecAlert == InitAlert /\ [][NextAlert]_vars

(***************************************************************************)
(* Properties.                                                             *)
(***************************************************************************)
\* The particles of a container as tuples <<row, col, vol, tau>>.
Tuples(p) == [i \in 1..Len(p.r) |-> <<p.r[i], p.c[i], p.vol[i], p.tau[i]>>]

\* The tuples of all ranks, in rank order.
AllTuples(parts, N) == Concat([i \in 1..N |-> Tuples(parts[i - 1])])

\* The sequences a and b hold the same elements the same number of times.
SameMultiset(a, b) ==
    /\ Len(a) = Len(b)
    /\ \A i \in 1..Len(a) :
          Cardinality({j \in 1..Len(a) : a[j] = a[i]})
              = Cardinality({j \in 1..Len(b) : b[j] = a[i]})

\* The volume of all particles on all ranks.
TotalVolume(parts, N) == RSum([i \in 1..N |-> RSum(parts[i - 1].vol)])

\* The tuples of p whose row lies in the slab of rank k, in the order of p.
OwnedBy(p, N, k) ==
    Mask(Tuples(p),
         [i \in 1..Len(p.r) |->
             /\ slab_bounds(cfg.dom.H, N, k)[1] <= p.r[i]
             /\ p.r[i] < slab_bounds(cfg.dom.H, N, k)[2]])

\* What rank k receives in a migration from the containers before: from every
\* other rank, in rank order, the particles whose row rank k owns.
ReceivedBy(before, N, k) ==
    Concat([i \in 1..N |-> IF i - 1 = k THEN <<>> ELSE OwnedBy(before[i - 1], N, k)])

\* C1: mass balance. At every step boundary, for either outflow_sink setting
\* and every number of workers, the volume of all particles on all workers plus
\* cum_outflow_vol_m3 equals cum_runoff_vol_m3; the volume a step adds to
\* cum_runoff_vol_m3 is the volume of the particles it spawned.
C1_MassBalance ==
    \A N \in WorkerCounts :
        /\ RAdd(TotalVolume(sim[N].particles, N), sim[N].cum_outflow_vol_m3)
               = sim[N].cum_runoff_vol_m3
        /\ last[N].stepped => TotalVolume(last[N].new, N) = last[N].spawned_vol

\* With the sink on and more than one worker: volume has left through the
\* outlet while particles are still on the grid.
C1_Witness ==
    /\ cfg.opt.outflow_sink
    /\ \E N \in WorkerCounts :
          /\ N > 1
          /\ RLt(Zero, sim[N].cum_outflow_vol_m3)
          /\ RLt(Zero, TotalVolume(sim[N].particles, N))

\* C2: slab ownership. At every step boundary every particle held by worker k
\* has its row in the slab [r0_k, r1_k) of k, for every number of workers; on
\* the 8-row all-south column with 4 workers the particle seeded at (0,0) is
\* at (7,0) on rank 3 after 7 hops.
C2_SlabOwnership ==
    /\ \A N \in WorkerCounts : \A k \in Ranks(N) :
          \A i \in 1..Len(sim[N].particles[k].r) :
              /\ slab_bounds(cfg.dom.H, N, k)[1] <= sim[N].particles[k].r[i]
              /\ sim[N].particles[k].r[i] < slab_bounds(cfg.dom.H, N, k)[2]
    /\ (cfg.name = "S4" /\ cfg.rains = RainS4 /\ nsteps = 7) =>
          /\ sim[4].particles[3].r = <<7>>
          /\ sim[4].particles[3].c = <<0>>
          /\ \A k \in 0..2 : Len(sim[4].particles[k].r) = 0

\* The 8-row column after 7 hops, one particle, held by rank 3 of 4.
C2_Witness ==
    /\ cfg.name = "S4"
    /\ cfg.rains = RainS4
    /\ nsteps = 7
    /\ Len(sim[4].particles[3].r) = 1
    /\ sim[4].particles[3].r[1] = 7

\* C3: migration neither loses, duplicates nor alters particles. For the
\* migration of every step and every number of workers, the multiset of
\* <<row, col, vol, tau>> over all workers after the exchange is the one before
\* it, each worker's new container is the particles it kept followed by the
\* particles it received, and packing then unpacking a container returns it.
C3_MigrationPreserves ==
    \A N \in WorkerCounts :
        last[N].stepped =>
            /\ SameMultiset(AllTuples(last[N].before_migrate, N),
                            AllTuples(sim[N].particles, N))
            /\ \A k \in Ranks(N) :
                  /\ Tuples(sim[N].particles[k])
                         = OwnedBy(last[N].before_migrate[k], N, k)
                               \o ReceivedBy(last[N].before_migrate, N, k)
                  /\ Tuples(unpack_particles_from_float64(Reshape4(Ravel(
                         pack_particles_to_float64(last[N].before_migrate[k])))))
                         = Tuples(last[N].before_migrate[k])

\* A worker that both kept particles and received some in the last migration.
C3_Witness ==
    \E N \in WorkerCounts : \E k \in Ranks(N) :
        /\ last[N].stepped
        /\ Len(OwnedBy(last[N].before_migrate[k], N, k)) > 0
        /\ Len(ReceivedBy(last[N].before_migrate, N, k)) > 0

\* C4: worker-count independence. For the same grids, rainfall sequence and
\* number of steps, the run with every N > 1 has the same gathered flood depth
\* and the same risk index as the run with N = 1.
C4_WorkerCountIndependence ==
    LET flood_depth == FloodDepth(1, sim[1], cfg)
        risk_index == RiskIndex(1, sim[1], cfg)
    IN  \A N \in WorkerCounts \ {1} :
            /\ FloodDepth(N, sim[N], cfg) = flood_depth
            /\ RiskIndex(N, sim[N], cfg) = risk_index

\* Water stands on a cell outside the first slab of a run with several workers,
\* and the risk index there lies strictly between 0 and 1.
C4_Witness ==
    \E x \in Cells(cfg.dom.H, cfg.dom.W) :
        /\ rank_of_row(x[1], cfg.dom.H, MaxWorkers) > 0
        /\ RLt(Zero, FloodDepth(MaxWorkers, sim[MaxWorkers], cfg)[x])
        /\ IsFinite(RiskIndex(MaxWorkers, sim[MaxWorkers], cfg)[x])
        /\ RLt(Zero, RiskIndex(MaxWorkers, sim[MaxWorkers], cfg)[x])
        /\ RLt(RiskIndex(MaxWorkers, sim[MaxWorkers], cfg)[x], R(1))

\* C5: checkpoint fidelity. A run that was gathered, saved, loaded and
\* scattered back at its checkpoints has, at every step boundary after, the
\* same P, Q, accumulators and, on every worker, the same multiset of particles
\* as the run that went straight through.
C5_CheckpointFidelity ==
    \A N \in WorkerCounts :
        /\ res[N].P = sim[N].P
        /\ res[N].Q = sim[N].Q
        /\ res[N].elapsed_s = sim[N].elapsed_s
        /\ res[N].cum_rain_vol_m3 = sim[N].cum_rain_vol_m3
        /\ res[N].cum_runoff_vol_m3 = sim[N].cum_runoff_vol_m3
        /\ res[N].cum_outflow_vol_m3 = sim[N].cum_outflow_vol_m3
        /\ \A k \in Ranks(N) :
              SameMultiset(Tuples(res[N].particles[k]), Tuples(sim[N].particles[k]))

\* Steps were run after a resume, with particles waiting on a worker other
\* than rank 0 when the bundle was written.
C5_Witness ==
    /\ state = "RUNNING"
    /\ ckpts > 0
    /\ nsteps > ckpts * cfg.opt.checkpoint_every_steps
    /\ \E N \in WorkerCounts : \E k \in Ranks(N) :
          /\ k > 0
          /\ Len(res[N].particles[k].r) > 0
          /\ \E i \in 1..Len(file[N].particle_tau) : RLt(Zero, file[N].particle_tau[i])

\* Phases counted over the steps: the one worker w has begun, the one it has
\* completed. A worker other than rank 0 has nothing to acquire: waiting in
\* the rainfall broadcast it counts as having completed phase 1.
Begun(w) == Len(Phases) * (stp[w] - 1) + PhaseOf[pc[w]]
Completed(w) ==
    Len(Phases) * (stp[w] - 1)
        + (IF pc[w] = "done" \/ (pc[w] = "rain" /\ w # 0)
           THEN PhaseOf[pc[w]] ELSE PhaseOf[pc[w]] - 1)

\* Worker w has begun the phases of its step in their order, none left out.
InOrder(w) == ran[w] = [i \in 1..PhaseOf[pc[w]] |-> i]

StepOver(w, s) == stp[w] > s \/ (stp[w] = s /\ pc[w] = "done")

SCSLaw(P, CN, ia_ratio) ==
    IF IsFinite(P) /\ IsFinite(CN) /\ RLt(Zero, CN) /\ RLe(CN, R(100))
    THEN LET S  == RSub(RDiv(R(25400), CN), R(254))
             Ia == RMul(ia_ratio, S)
         IN  IF RLe(P, Ia) THEN Zero
             ELSE RDiv(RMul(RSub(P, Ia), RSub(P, Ia)), RAdd(RSub(P, Ia), S))
    ELSE Zero

\* C8: after the Q update of a cell, Q is what the SCS-CN law gives for the
\* cell's P, CN and ia_ratio, the curve number 100 (S = 0) included, and Q = 0
\* for a curve number outside (0, 100] or a non-finite P.
C8_SCSLaw ==
    cell.at = "boundary" => cell.Q = SCSLaw(cell.P, cell.CN, cell.ia_ratio)

C10_RunoffBelowRain ==
    (/\ cell.at = "boundary"
     /\ IsFinite(cell.P) /\ RLe(Zero, cell.P)
     /\ RLe(Zero, cell.ia_ratio))
        => RLe(cell.Q, cell.P)

\* Runoff has begun on a cell with a valid curve number and ia_ratio > 0: Q is
\* positive and strictly below P.
C10_Witness ==
    /\ cell.at = "boundary"
    /\ cell.n = SCSSteps
    /\ RLt(Zero, cell.ia_ratio)
    /\ RLt(Zero, cell.Q)
    /\ RLt(cell.Q, cell.P)

\* C11: P_mm and Q_mm never decrease: at every step boundary, on every cell,
\* the value after the step is at least the value before it, whatever the
\* configured list of rainfall sources (the blended rainfall of a step is
\* never negative).
C11_Monotone ==
    cell.at = "boundary" =>
        \A x \in DOMAIN cell.P :
            /\ RLe(Zero, cell.rain[x])
            /\ RLe(cell.P_before[x], cell.P[x])
            /\ RLe(cell.Q_before[x], cell.Q[x])

\* The same for the lists in which no source has a negative weight.
C11_MonotoneUnderNonNegativeWeights ==
    (\A i \in 1..Len(cell.sources) : RLe(Zero, cell.sources[i].weight)) => C11_Monotone

\* No cell of the grid has a downstream cell.
AllTerminal ==
    /\ state # "UNINITIALIZED"
    /\ \A x \in Cells(cfg.dom.H, cfg.dom.W) : ~idx.valid[x]

\* The rows, columns and volumes of a container, in its order.
Placed(p) == [i \in 1..Len(p.r) |-> <<p.r[i], p.c[i], p.vol[i]>>]

\* C12: on a grid where no cell has a downstream cell, under outflow_sink=true
\* every particle leaves in the advect of the step that spawned it (no particle
\* at a step boundary, cum_outflow_vol_m3 = cum_runoff_vol_m3); under
\* outflow_sink=false no particle is moved or removed (after a step each
\* container is what it was followed by the new particles, each on its spawn
\* cell) and cum_outflow_vol_m3 stays 0.
C12_AllTerminal ==
    [][(AllTerminal /\ nsteps' = nsteps + 1) =>
          \A N \in WorkerCounts :
             IF cfg.opt.outflow_sink
             THEN /\ \A k \in Ranks(N) : Len(sim'[N].particles[k].r) = 0
                  /\ \A k \in Ranks(N) : Len(last'[N].before_migrate[k].r) = 0
                  /\ sim'[N].cum_outflow_vol_m3 = sim'[N].cum_runoff_vol_m3
             ELSE /\ \A k \in Ranks(N) :
                        Placed(sim'[N].particles[k])
                            = Placed(sim[N].particles[k]) \o Placed(last'[N].new[k])
                  /\ sim'[N].cum_outflow_vol_m3 = Zero]_vars

\* Two rainy steps on an all-terminal grid with the sink on: volume has left
\* in both and nothing is held.
C12_Witness ==
    /\ AllTerminal /\ cfg.opt.outflow_sink /\ nsteps >= 2
    /\ RLt(last[MaxWorkers].outflow_vol, sim[MaxWorkers].cum_outflow_vol_m3)
    /\ RLt(Zero, last[MaxWorkers].outflow_vol)
    /\ \A k \in Ranks(MaxWorkers) : Len(sim[MaxWorkers].particles[k].r) = 0

\* The same with the sink off: particles of two steps are held, none has left.
C12_WitnessHeld ==
    /\ AllTerminal /\ ~cfg.opt.outflow_sink /\ nsteps >= 2
    /\ \E k \in Ranks(MaxWorkers) :
          /\ Len(last[MaxWorkers].new[k].r) > 0
          /\ Len(sim[MaxWorkers].particles[k].r) > Len(last[MaxWorkers].new[k].r)
    /\ sim[MaxWorkers].cum_outflow_vol_m3 = Zero

\* The rows of the slab <<r0, r1>>.
SlabRows(b) == {r \in 0..(call.nrows - 1) : b[1] <= r /\ r < b[2]}

\* C13: for every H >= 0 and N >= 1 (N > H included) the ranges [r0_k, r1_k)
\* of slab_bounds are pairwise disjoint, contiguous in rank order, and their
\* union is exactly [0, H).
C13_SlabPartition ==
    call.at \in {"bounds", "owners"} =>
        /\ call.bounds[0][1] = 0
        /\ call.bounds[call.size - 1][2] = call.nrows
        /\ \A k \in Ranks(call.size) : call.bounds[k][1] <= call.bounds[k][2]
        /\ \A k \in Ranks(call.size - 1) : call.bounds[k][2] = call.bounds[k + 1][1]
        /\ \A j, k \in Ranks(call.size) :
              j # k => SlabRows(call.bounds[j]) \cap SlabRows(call.bounds[k]) = {}
        /\ UNION {SlabRows(call.bounds[k]) : k \in Ranks(call.size)} = 0..(call.nrows - 1)

\* More workers than rows: a rank with rows is followed by ranks with none.
C13_Witness ==
    /\ call.at = "bounds"
    /\ call.size > call.nrows /\ call.nrows > 1
    /\ \E k \in Ranks(call.size) : call.bounds[k][1] = call.bounds[k][2]
    /\ \E k \in Ranks(call.size) : call.bounds[k][1] < call.bounds[k][2]

\* C14: for every H, N >= 1 (N > H included) and every row r in [0, H),
\* rank_of_row(r) is the one rank k with r0_k <= r < r1_k: a rank in 0..N-1
\* whose slab is not empty.
C14_RankOfRow ==
    call.at = "owners" =>
        \A r \in 0..(call.nrows - 1) :
            /\ call.owner[r] \in Ranks(call.size)
            /\ call.bounds[call.owner[r]][1] < call.bounds[call.owner[r]][2]
            /\ \A k \in Ranks(call.size) :
                  (call.bounds[k][1] <= r /\ r < call.bounds[k][2]) <=> k = call.owner[r]

\* Rows looked up with more workers than rows, and with slabs of unequal size.
C14_Witness ==
    /\ call.at = "owners"
    /\ call.nrows > 1
    /\ \/ call.size > call.nrows
       \/ (call.size > 1 /\ call.nrows % call.size # 0)
    /\ \E r \in 0..(call.nrows - 1) : call.owner[r] > 0

\* C15: for every H and N >= 1 the first (H mod N) workers own ceil(H/N) rows
\* and the others own floor(H/N) rows, so two slabs differ by at most one row.
C15_SlabSizes ==
    call.at \in {"bounds", "owners"} =>
        /\ \A k \in Ranks(call.size) :
              call.bounds[k][2] - call.bounds[k][1]
                  = IF k < call.nrows % call.size
                    THEN (call.nrows + call.size - 1) \div call.size
                    ELSE call.nrows \div call.size
        /\ \A j, k \in Ranks(call.size) :
              (call.bounds[j][2] - call.bounds[j][1])
                  - (call.bounds[k][2] - call.bounds[k][1]) \in {-1, 0, 1}

\* A row count that the worker count does not divide, with a remainder of
\* two rows or more.
C15_Witness ==
    /\ call.at = "bounds"
    /\ call.size < call.nrows /\ call.nrows % call.size > 1
    /\ call.bounds[0][2] - call.bounds[0][1]
          = (call.bounds[call.size - 1][2] - call.bounds[call.size - 1][1]) + 1

\* The table of an encoding, and the cell a code points to from x.
TableOf(encoding) == IF encoding = "esri" THEN ESRI_OFFSETS ELSE CW0_7_OFFSETS
PointsTo(x) ==
    <<x[1] + TableOf(call.encoding)[call.d8[x]][1],
      x[2] + TableOf(call.encoding)[call.d8[x]][2]>>
InTable(x) == call.d8[x] \in DOMAIN TableOf(call.encoding)

\* C16: for every cell (r,c) and either encoding, has_down[r,c] is true exactly
\* when the cell's code is in the encoding's table and (r+dr, c+dc) is inside
\* the grid; then (down_row, down_col) = (r+dr, c+dc), inside the grid;
\* otherwise down_row = down_col = -1.
C16_DirectionIndex ==
    call.at \in {"index", "accum"} =>
        \A x \in Cells(call.nrows, call.ncols) :
            /\ call.ix.valid[x] <=>
                   (InTable(x) /\ PointsTo(x) \in Cells(call.nrows, call.ncols))
            /\ call.ix.valid[x] =>
                   /\ <<call.ix.ds_r[x], call.ix.ds_c[x]>> = PointsTo(x)
                   /\ <<call.ix.ds_r[x], call.ix.ds_c[x]>> \in Cells(call.nrows, call.ncols)
            /\ ~call.ix.valid[x] => (call.ix.ds_r[x] = -1 /\ call.ix.ds_c[x] = -1)

\* A raster in the clockwise encoding with a cell that has a downstream cell,
\* one whose direction leaves the grid and one whose code is not in the table.
C16_Witness ==
    /\ call.at = "index" /\ call.encoding = "cw0_7"
    /\ \E x, y, z \in Cells(call.nrows, call.ncols) :
          /\ call.ix.valid[x]
          /\ InTable(y) /\ ~call.ix.valid[y]
          /\ ~InTable(z) /\ ~call.ix.valid[z]

\* A container of a grid of H rows and W columns: four arrays of one length,
\* no negative volume, every particle on a cell of the grid.
WellFormed(p, H, W) ==
    /\ Len(p.c) = Len(p.r) /\ Len(p.vol) = Len(p.r) /\ Len(p.tau) = Len(p.r)
    /\ \A i \in 1..Len(p.r) :
          /\ RLe(Zero, p.vol[i])
          /\ 0 <= p.r[i] /\ p.r[i] < H
          /\ 0 <= p.c[i] /\ p.c[i] < W

\* C17: after any sequence of spawn, concatenate, advect and migrate, the
\* arrays row, col, vol, tau of every worker's container have equal length and
\* every particle has vol >= 0, 0 <= row < H, 0 <= col < W. Checked on the
\* containers at every step boundary, on those resumed from a checkpoint, and
\* on the containers between the phases of the last step.
C17_ContainerInvariant ==
    state # "UNINITIALIZED" =>
        \A N \in WorkerCounts : \A k \in Ranks(N) :
            /\ WellFormed(sim[N].particles[k], cfg.dom.H, cfg.dom.W)
            /\ WellFormed(res[N].particles[k], cfg.dom.H, cfg.dom.W)
            /\ last[N].stepped =>
                  /\ WellFormed(last[N].new[k], cfg.dom.H, cfg.dom.W)
                  /\ WellFormed(last[N].before_advect[k], cfg.dom.H, cfg.dom.W)
                  /\ WellFormed(last[N].before_migrate[k], cfg.dom.H, cfg.dom.W)

\* A step that spawned, joined the new particles to those held, moved some and
\* sent some to another worker.
C17_Witness ==
    /\ nsteps >= 2
    /\ \E k \in Ranks(MaxWorkers) :
          /\ Len(last[MaxWorkers].new[k].r) > 0
          /\ Len(last[MaxWorkers].before_advect[k].r) > Len(last[MaxWorkers].new[k].r)
          /\ Placed(last[MaxWorkers].before_advect[k])
                 # Placed(last[MaxWorkers].before_migrate[k])
          /\ last[MaxWorkers].before_migrate[k] # sim[MaxWorkers].particles[k]
    /\ \E k \in Ranks(MaxWorkers) : Len(sim[MaxWorkers].particles[k].r) > 1

\* The active cells with a downstream cell pass their area on.
Flows(x) == call.active_mask[x] /\ call.ix.valid[x]
Down(x) == <<call.ix.ds_r[x], call.ix.ds_c[x]>>

\* The active cells met from 1 to k hops downstream of the active cell x, going
\* through active cells only.
RECURSIVE Trail(_, _)
Trail(x, k) ==
    IF k = 0 \/ ~Flows(x) \/ ~call.active_mask[Down(x)] THEN {}
    ELSE {Down(x)} \cup Trail(Down(x), k - 1)

\* For every active cell the cells downstream of it.
Trails ==
    [x \in {y \in Cells(call.nrows, call.ncols) : call.active_mask[y]} |->
        Trail(x, call.nrows * call.ncols)]

\* A cycle among active cells.
ActiveCycle == \E x \in DOMAIN Trails : x \in Trails[x]

\* The active cells whose downstream path reaches x, x itself included.
Upstream(x) == {x} \cup {u \in DOMAIN Trails : x \in Trails[u]}

AreaOf(x) == IF call.cell_area_m2.scalar THEN call.cell_area_m2.v ELSE call.cell_area_m2.v[x]

\* The sum of f over the cells of S.
RECURSIVE SumOver(_, _)
SumOver(S, f) ==
    IF S = {} THEN Zero
    ELSE LET x == CHOOSE y \in S : TRUE IN RAdd(f[x], SumOver(S \ {x}, f))

\* C18: on a direction graph with no cycle among active cells, for every
\* active cell x the accumulation A[x] is the area of x plus the areas of the
\* active cells whose downstream path reaches x, which is area(x) plus the sum
\* of A[u] over the active cells u whose downstream cell is x; a 1x10 row
\* draining east with area 1 gives A = [1, 2, ..., 10].
C18_FlowAccumulation ==
    (call.at = "accum" /\ ~ActiveCycle) =>
        /\ \A x \in Cells(call.nrows, call.ncols) :
              call.active_mask[x] =>
                 /\ call.acc[x]
                       = SumOver(Upstream(x), [u \in Cells(call.nrows, call.ncols) |-> AreaOf(u)])
                 /\ call.acc[x]
                       = RAdd(AreaOf(x),
                              SumOver({u \in Cells(call.nrows, call.ncols) :
                                          Flows(u) /\ Down(u) = x}, call.acc))
        /\ (call.ncols = 10 /\ call.d8 = Uniform(1, 10, 1)) =>
              \A c \in 0..9 : call.acc[<<0, c>>] = R(c + 1)

\* The 1x10 row after the sweep.
C18_Witness ==
    /\ call.at = "accum" /\ call.ncols = 10 /\ call.d8 = Uniform(1, 10, 1)
    /\ call.acc[<<0, 9>>] = R(10)

\* A raster without cycle in which a cell gathers two tributaries, one of them
\* with a tributary of its own.
C18_WitnessConfluence ==
    /\ call.at = "accum" /\ ~ActiveCycle
    /\ \E x, u, v, w \in Cells(call.nrows, call.ncols) :
          /\ u # v /\ Flows(u) /\ Flows(v) /\ Flows(w)
          /\ Down(u) = x /\ Down(v) = x /\ Down(w) = u /\ call.active_mask[x]

\* The part of the failure mode that the sweep itself decides: it ends; with
\* a cycle among active cells an active cell is left with an in-degree above
\* 0, without one none is.
SweepLeavesCycles ==
    call.at = "accum" =>
        (ActiveCycle <=> \E x \in Cells(call.nrows, call.ncols) :
                            call.active_mask[x] /\ call.indeg[x] > 0)

\* C19: cycles are not fatal and are reported: the sweep ends without raising;
\* with a cycle among active cells an active cell is left with in-degree > 0
\* and a warning is logged; without one no active cell is left with
\* in-degree > 0.
C19_CyclesReported ==
    call.at = "accum" =>
        /\ SweepLeavesCycles
        /\ ActiveCycle => \E i \in 1..Len(call.log) : call.log[i].level = "WARNING"

\* Scenario S5 after the call: the field 10..100 on ten active cells, p_low = 10
\* and p_high = 90.
ScenarioS5 ==
    /\ call.at = "normalized"
    /\ call.a = FieldS5 /\ call.p_low = R(10) /\ call.p_high = R(90)
    /\ \A x \in Cells(1, 10) : call.mask[x]

\* C20: in scenario S5 robust_normalize returns 0 at the cell of value 20,
\* 1 at the cell of value 90, 0 below and 1 above.
C20_ScenarioS5 ==
    ScenarioS5 =>
        /\ call.norm[<<0, 1>>] = Zero
        /\ call.norm[<<0, 8>>] = R(1)
        /\ call.norm[<<0, 0>>] = Zero
        /\ call.norm[<<0, 9>>] = R(1)

\* The general rule on every input: 0 on the mask when the percentiles are not
\* finite or hi <= lo, else clamp((x - lo) / (hi - lo), 0, 1); NaN elsewhere.
NormRule ==
    call.at = "normalized" =>
        \A x \in Cells(1, 10) :
            IF ~call.mask[x] THEN call.norm[x] = NaN
            ELSE IF ~IsFinite(call.lo) \/ ~IsFinite(call.hi) \/ RLe(call.hi, call.lo)
            THEN call.norm[x] = Zero
            ELSE IF ~IsFinite(call.a[x]) THEN call.norm[x] = NaN
            ELSE /\ RLe(Zero, call.norm[x]) /\ RLe(call.norm[x], R(1))
                 /\ (RLe(call.lo, call.a[x]) /\ RLe(call.a[x], call.hi)) =>
                        call.norm[x] = RDiv(RSub(call.a[x], call.lo), RSub(call.hi, call.lo))

\* What the call computes in scenario S5: percentiles 19 and 91.
S5Percentiles == ScenarioS5 => (call.lo = R(19) /\ call.hi = R(91))

(***************************************************************************)
(* The step driver's state machine.                                        *)
(***************************************************************************)
DriverTransitions ==
    {<<"UNINITIALIZED", "READY">>, <<"READY", "RUNNING">>, <<"RUNNING", "CHECKPOINTING">>,
     <<"CHECKPOINTING", "RUNNING">>, <<"RUNNING", "FINAL">>}

Expired == ~RLt(sim[1].elapsed_s, cfg.opt.duration_s)

\* One move of the driver: the state changes along an arrow of the machine,
\* FINAL is entered only with elapsed_s >= sim_duration_s, and no step runs
\* once elapsed_s >= sim_duration_s.
DriverMove ==
    /\ state' # state => <<state, state'>> \in DriverTransitions
    /\ state' = "FINAL" /\ state # "FINAL" => Expired
    /\ nsteps' # nsteps => ~Expired /\ state' = "RUNNING"
    /\ state = "RUNNING" /\ Expired /\ state' # state => state' \in {"FINAL", "CHECKPOINTING"}
    /\ state = "FINAL" => state' = "FINAL"

UnknownMode(src) == src.mode \notin {"intensity_mmph", "depth_mm_per_step"}
MissingFields(src) ==
    \/ src.kind = "scalar" /\ src.value = None
    \/ src.kind = "netcdf" /\ (src.path = "None" \/ src.var = "None")
ShapeMismatch(src) ==
    src.kind = "netcdf" /\ src.da # Absent /\ src.da.shape # <<RainRows, RainCols>>
Misconfigured(src) == UnknownMode(src) \/ MissingFields(src) \/ ShapeMismatch(src)

\* C22: a configuration with an unknown direction encoding, or with a source of
\* unknown mode, missing required fields or mismatched shape, is rejected
\* before the first step runs: no step has run on such a configuration.
C22_ConfigErrorsFatal ==
    call.steps > 0 =>
        /\ d8_encoding_known(call.encoding)
        /\ \A i \in 1..Len(call.sources) : ~Misconfigured(call.sources[i])

\* What holds: the same for the sources of non-zero weight, and the unknown
\* encoding is rejected by the initialisation.
ConfigErrorsFatalWhenWeighted ==
    /\ call.at \in {"READY", "RUNNING"} => d8_encoding_known(call.encoding)
    /\ call.steps > 0 =>
          \A i \in 1..Len(call.sources) :
              call.sources[i].weight # Zero => ~Misconfigured(call.sources[i])

\* A configuration whose only flaw is in a source of weight 0 has run its steps.
ZeroWeightAccepted ==
    /\ call.steps = RainSteps
    /\ \E i \in 1..Len(call.sources) :
          call.sources[i].weight = Zero /\ MissingFields(call.sources[i])

(***************************************************************************)
(* The advect call, particle by particle (SpecAdvect).                     *)
(***************************************************************************)
\* Particle i of container b before the call: its cell, its tau less dt,
\* whether it may move, hops, or leaves through the sink.
AdvCell(b, i) == <<b.r[i], b.c[i]>>
AdvAged(b, i) == RSub(b.tau[i], AdvOptions.dt_s)
AdvMovable(b, i) == RLe(AdvAged(b, i), Zero)
AdvHops(b, i) == AdvMovable(b, i) /\ AdvIndex.valid[AdvCell(b, i)]
AdvLeaves(b, i) == call.sink /\ AdvMovable(b, i) /\ ~AdvIndex.valid[AdvCell(b, i)]
AdvNext(b, i) == <<AdvIndex.ds_r[AdvCell(b, i)], AdvIndex.ds_c[AdvCell(b, i)]>>
AdvInChannel(x) == call.chan.present /\ call.chan.m[x]

\* The particles of b that stay in the container, in its order.
AdvStay(b) == NonZero([i \in 1..Len(b.r) |-> ~AdvLeaves(b, i)])

\* C23: one call of advect_particles_one_step decreases every particle's tau
\* by dt; a particle changes cell iff its decremented tau <= 0 and its cell has
\* a downstream neighbour; it then moves to exactly that neighbour and its tau
\* is increased by travel_time_channel_s if the destination is in the channel
\* mask, else by travel_time_overland_s; every other particle keeps its cell;
\* nhops is the number of particles moved.
C23_HopRule ==
    call.at = "advected" =>
        \A k \in Ranks(2) :
            /\ Len(call.out[k].p.r) = Len(AdvStay(call.before[k]))
            /\ Len(call.out[k].p.c) = Len(AdvStay(call.before[k]))
            /\ Len(call.out[k].p.tau) = Len(AdvStay(call.before[k]))
            /\ \A j \in 1..Len(AdvStay(call.before[k])) :
                  IF AdvHops(call.before[k], AdvStay(call.before[k])[j])
                  THEN /\ AdvCell(call.out[k].p, j)
                              = AdvNext(call.before[k], AdvStay(call.before[k])[j])
                       /\ AdvCell(call.out[k].p, j)
                              # AdvCell(call.before[k], AdvStay(call.before[k])[j])
                       /\ call.out[k].p.tau[j]
                              = RAdd(AdvAged(call.before[k], AdvStay(call.before[k])[j]),
                                     IF AdvInChannel(AdvCell(call.out[k].p, j))
                                     THEN AdvOptions.travel_time_channel_s
                                     ELSE AdvOptions.travel_time_s)
                  ELSE /\ AdvCell(call.out[k].p, j)
                              = AdvCell(call.before[k], AdvStay(call.before[k])[j])
                       /\ call.out[k].p.tau[j]
                              = AdvAged(call.before[k], AdvStay(call.before[k])[j])
            /\ call.out[k].nhops
                  = Cardinality({i \in 1..Len(call.before[k].r) : AdvHops(call.before[k], i)})

\* A call that moved one particle onto a channel cell, where its tau is still
\* <= 0, moved another onto a cell outside the channel and left a third in place.
C23_Witness ==
    /\ call.at = "advected"
    /\ \E k \in Ranks(2) : \E i \in 1..Len(call.before[k].r) :
          /\ AdvHops(call.before[k], i) /\ AdvInChannel(AdvNext(call.before[k], i))
          /\ RLe(RAdd(AdvAged(call.before[k], i), AdvOptions.travel_time_channel_s), Zero)
          /\ AdvIndex.valid[AdvNext(call.before[k], i)]
    /\ \E k \in Ranks(2) : \E j, l \in 1..Len(call.before[k].r) :
          /\ AdvHops(call.before[k], j) /\ ~AdvInChannel(AdvNext(call.before[k], j))
          /\ ~AdvMovable(call.before[k], l)
    /\ call.out[0].nhops + call.out[1].nhops = 2

\* The number of particles held by the two workers.
AdvCount == Len(call.parts[0].r) + Len(call.parts[1].r)

\* C24: advect removes a particle iff outflow_sink is true, its decremented tau
\* is <= 0 and its cell is terminal; the outflow volume returned is the sum of
\* vol of the removed particles and the vol of every surviving particle is
\* unchanged; under outflow_sink = false the returned outflow is 0 and no
\* operation (advect, migrate) ever removes a particle.
C24_OutflowSink ==
    /\ call.at = "advected" =>
          \A k \in Ranks(2) :
              /\ call.out[k].p.vol
                    = [j \in 1..Len(AdvStay(call.before[k])) |->
                          call.before[k].vol[AdvStay(call.before[k])[j]]]
              /\ call.out[k].outflow_vol
                    = RSum(Mask(call.before[k].vol,
                                [i \in 1..Len(call.before[k].r) |->
                                    AdvLeaves(call.before[k], i)]))
              /\ ~call.sink => call.out[k].outflow_vol = Zero
    /\ call.at \in {"advected", "settled"} /\ ~call.sink => AdvCount = call.count0

\* With the sink on, a call removed one particle and kept a movable one that
\* hopped and one that waits on a terminal cell.
C24_Witness ==
    /\ call.at = "advected" /\ call.sink
    /\ \E k \in Ranks(2) : \E i, j, l \in 1..Len(call.before[k].r) :
          /\ AdvLeaves(call.before[k], i)
          /\ AdvHops(call.before[k], j)
          /\ ~AdvMovable(call.before[k], l) /\ ~AdvIndex.valid[AdvCell(call.before[k], l)]
          /\ call.out[k].outflow_vol = call.before[k].vol[i]

\* With the sink off, particles with tau <= 0 wait on a terminal cell over two
\* calls and a migration.
C24_WitnessHeld ==
    /\ call.at = "advected" /\ ~call.sink /\ call.n = 2
    /\ \E k \in Ranks(2) : \E i \in 1..Len(call.before[k].r) :
          /\ AdvMovable(call.before[k], i) /\ ~AdvIndex.valid[AdvCell(call.before[k], i)]
          /\ RLe(call.before[k].tau[i], Zero)
    /\ call.count0 = MaxParticles

(***************************************************************************)
(* The spawn call, cell by cell (SpecSpawn).                               *)
(***************************************************************************)
\* The global cell of the local cell x, whether it emits, its volume V and its
\* number of particles n = max(1, round(V / v*)), rounding half to even.
SpawnGlobal(x) == <<x[1] + call.r0, x[2]>>
SpawnEmits(x) == call.active_mask[SpawnGlobal(x)] /\ RLt(Zero, call.depth[x])
SpawnV(x) ==
    RMul(call.depth[x], IF call.cell_area_m2.scalar THEN call.cell_area_m2.v
                        ELSE call.cell_area_m2.v[SpawnGlobal(x)])
SpawnN(x) ==
    IF RoundHalfEven(RDiv(SpawnV(x), call.particle_vol_m3)) > 1
    THEN RoundHalfEven(RDiv(SpawnV(x), call.particle_vol_m3)) ELSE 1
SpawnAt(x) ==
    {i \in 1..Len(call.out.p.r) : <<call.out.p.r[i], call.out.p.c[i]>> = SpawnGlobal(x)}

\* C25: every cell of the slab that is active and has dQ > 0 gets exactly
\* n = max(1, round(V / v*)) particles at its global (row, col), each with
\* vol = V / n and tau = 0, V = dQ * area; no particle is emitted elsewhere; the
\* total volume returned is the sum of V over the emitting cells and the sum of
\* vol of the emitted particles.
C25_SpawnRule ==
    call.at = "spawned" =>
        /\ \A x \in Cells(2, 2) :
              IF SpawnEmits(x)
              THEN /\ Cardinality(SpawnAt(x)) = SpawnN(x)
                   /\ \A i \in SpawnAt(x) :
                         /\ call.out.p.vol[i] = RDiv(SpawnV(x), R(SpawnN(x)))
                         /\ call.out.p.tau[i] = Zero
              ELSE SpawnAt(x) = {}
        /\ \A i \in 1..Len(call.out.p.r) : \E x \in Cells(2, 2) : i \in SpawnAt(x)
        /\ Len(call.out.p.c) = Len(call.out.p.r) /\ Len(call.out.p.vol) = Len(call.out.p.r)
        /\ Len(call.out.p.tau) = Len(call.out.p.r)
        /\ call.out.total_vol
              = SumOver({x \in Cells(2, 2) : SpawnEmits(x)}, [x \in Cells(2, 2) |-> SpawnV(x)])
        /\ call.out.total_vol = RSum(call.out.p.vol)

\* A slab with a cell that emits one particle for a ratio below 1, a cell that
\* emits 2 for the ratio 2.5, a wet cell that is inactive and a cell with
\* dQ < 0.
C25_Witness ==
    /\ call.at = "spawned"
    /\ \E x, y, u, d \in Cells(2, 2) :
          /\ SpawnEmits(x) /\ RLt(RDiv(SpawnV(x), call.particle_vol_m3), R(1))
          /\ Cardinality(SpawnAt(x)) = 1
          /\ SpawnEmits(y) /\ RDiv(SpawnV(y), call.particle_vol_m3) = <<5, 2>>
          /\ Cardinality(SpawnAt(y)) = 2
          /\ ~call.active_mask[SpawnGlobal(u)] /\ RLt(Zero, call.depth[u])
          /\ RLt(call.depth[d], Zero)

\* A cell that emits five particles.
C25_WitnessMany ==
    call.at = "spawned" /\ \E x \in Cells(2, 2) : Cardinality(SpawnAt(x)) = 5

\* The particles of worker k on the cell <<r, c>>, and those inside its slab.
HeldAt(k, r, c) ==
    {i \in 1..Len(call.parts[k].r) : call.parts[k].r[i] = r /\ call.parts[k].c[i] = c}
HeldInSlab(k) ==
    {i \in 1..Len(call.parts[k].r) :
        /\ slab_bounds(2, 2, k)[1] <= call.parts[k].r[i]
        /\ call.parts[k].r[i] < slab_bounds(2, 2, k)[2]}

\* C26: for every cell (r, c) of a worker's slab the deposition grid at
\* (r - r0, c) is the sum of vol of all of that worker's particles on (r, c),
\* and the grid total is the volume of the worker's particles inside its slab.
C26_Deposit ==
    call.at = "deposited" =>
        \A k \in Ranks(2) :
            /\ DOMAIN call.grid[k]
                  = Cells(slab_bounds(2, 2, k)[2] - slab_bounds(2, 2, k)[1], 3)
            /\ \A x \in DOMAIN call.grid[k] :
                  call.grid[k][x]
                      = SumOver(HeldAt(k, x[1] + slab_bounds(2, 2, k)[1], x[2]),
                                call.parts[k].vol)
            /\ SumOver(DOMAIN call.grid[k], call.grid[k])
                  = SumOver(HeldInSlab(k), call.parts[k].vol)

\* A worker deposits three particles, two of them on one cell of its slab.
C26_Witness ==
    /\ call.at = "deposited"
    /\ \E k \in Ranks(2) : \E x, y \in DOMAIN call.grid[k] :
          /\ x # y
          /\ Cardinality(HeldAt(k, x[1] + slab_bounds(2, 2, k)[1], x[2])) = 2
          /\ Cardinality(HeldAt(k, y[1] + slab_bounds(2, 2, k)[1], y[2])) = 1

\* A worker deposits while it holds a particle that has left its slab.
C26_WitnessOutside ==
    /\ call.at = "deposited"
    /\ \E k \in Ranks(2) :
          /\ HeldInSlab(k) # {}
          /\ HeldInSlab(k) # 1..Len(call.parts[k].r)

(***************************************************************************)
(* The sweep in any order (SpecSweep).                                     *)
(***************************************************************************)
\* C27: whatever order the ready cells are taken in, the sweep ends with the A
\* and the in-degrees the source's order gives, and no cell is processed twice.
C27_OrderIndependence ==
    /\ call.at \in {"sweep", "swept"} =>
          \A i, j \in 1..Len(call.taken) : call.taken[i] = call.taken[j] => i = j
    /\ call.at = "swept" =>
          /\ call.acc = call.ref.acc
          /\ call.indeg = call.ref.indeg

\* A sweep that ended after it took the tributaries of a confluence in
\* row-major order, the reverse of the order the source pops them in, with
\* another ready cell taken between them.
C27_Witness ==
    /\ call.at = "swept"
    /\ \E i, j \in 1..Len(call.taken) :
          /\ i + 1 < j
          /\ Flows(call.taken[i]) /\ Flows(call.taken[j])
          /\ Down(call.taken[i]) = Down(call.taken[j])
          /\ call.active_mask[Down(call.taken[i])]
          /\ call.taken[i][1] * call.ncols + call.taken[i][2]
                < call.taken[j][1] * call.ncols + call.taken[j][2]
          /\ call.acc[call.taken[i]] # call.acc[call.taken[j]]

\* A sweep that ended on a raster with a cycle among active cells.
C27_WitnessCycle ==
    call.at = "swept" /\ \E x \in DOMAIN call.indeg : call.active_mask[x] /\ call.indeg[x] > 0

(***************************************************************************)
(* Particles and the active mask (Spec).                                   *)
(***************************************************************************)
\* The particles of container p on cell x.
OnCell(p, x) == {i \in 1..Len(p.r) : <<p.r[i], p.c[i]>> = x}

\* Particle i of container b, about to be advected: it may move, and it hops
\* onto the cell d.
Movable(b, i) == RLe(RSub(b.tau[i], cfg.opt.dt_s), Zero)
HopsOnto(b, i, d) ==
    /\ Movable(b, i)
    /\ idx.valid[<<b.r[i], b.c[i]>>]
    /\ <<idx.ds_r[<<b.r[i], b.c[i]>>], idx.ds_c[<<b.r[i], b.c[i]>>]>> = d

\* The particles of b that the advect call leaves on the cell d where they are.
StaysOn(b, d) ==
    {i \in OnCell(b, d) :
        ~Movable(b, i) \/ (~idx.valid[d] /\ ~cfg.opt.outflow_sink)}

\* C28: spawn places particles on active cells only; advect applies no
\* active-mask check: after the advect call an inactive cell holds the
\* particles that stayed on it and every movable particle whose cell drains
\* onto it.
C28_MaskOnlyAtSpawn ==
    state # "UNINITIALIZED" =>
        \A N \in WorkerCounts : last[N].stepped =>
            \A k \in Ranks(N) :
                /\ \A i \in 1..Len(last[N].new[k].r) :
                      cfg.dom.active_mask[<<last[N].new[k].r[i], last[N].new[k].c[i]>>]
                /\ \A d \in Cells(cfg.dom.H, cfg.dom.W) :
                      ~cfg.dom.active_mask[d] =>
                          Cardinality(OnCell(last[N].before_migrate[k], d))
                              = Cardinality(StaysOn(last[N].before_advect[k], d))
                                + Cardinality({i \in 1..Len(last[N].before_advect[k].r) :
                                                  HopsOnto(last[N].before_advect[k], i, d)})

\* A particle spawned on an active cell has hopped onto the inactive cell
\* downstream of it and is held there at the step boundary.
C28_Witness ==
    /\ state = "RUNNING"
    /\ last[1].stepped
    /\ \E d \in Cells(cfg.dom.H, cfg.dom.W) :
          /\ ~cfg.dom.active_mask[d]
          /\ OnCell(sim[1].particles[0], d) # {}
          /\ \E i \in 1..Len(last[1].before_advect[0].r) :
                /\ HopsOnto(last[1].before_advect[0], i, d)
                /\ cfg.dom.active_mask[<<last[1].before_advect[0].r[i],
                                         last[1].before_advect[0].c[i]>>]

(***************************************************************************)
(* The rainfall file cache (SpecCache).                                    *)
(***************************************************************************)
\* The handles the cache holds.
Cached == {call.cache[q] : q \in CachePaths} \ {0}

\* Every cached path maps to an open dataset of that path, and every dataset
\* that is not in the cache has had close() called on it: it is closed unless
\* its close() raised.
CacheSound ==
    /\ \A q \in CachePaths :
          call.cache[q] # 0 =>
              /\ call.cache[q] \in 1..Len(call.handles)
              /\ call.handles[call.cache[q]] = [path |-> q, status |-> "open"]
    /\ \A i \in 1..Len(call.handles) :
          i \notin Cached => call.handles[i].status \in {"closed", "close_raised"}

\* A call that returned: a request for a cached path returns the cached handle
\* and opens nothing; a request for a path that is not cached opens it once and
\* caches it; a close leaves the cache empty, with close() called on every
\* dataset it held.
CacheCall ==
    call'.n = call.n + 1 /\ call'.at = "cache" =>
        IF call'.op = "open"
        THEN IF call.cache[call'.path] # 0
             THEN /\ call'.ret = call.cache[call'.path]
                  /\ call'.handles = call.handles
                  /\ call'.cache = call.cache
             ELSE /\ Len(call'.handles) = Len(call.handles) + 1
                  /\ SubSeq(call'.handles, 1, Len(call.handles)) = call.handles
                  /\ call'.ret = Len(call'.handles)
                  /\ call'.cache = [call.cache EXCEPT ![call'.path] = call'.ret]
        ELSE /\ \A q \in CachePaths : call'.cache[q] = 0
             /\ Len(call'.handles) = Len(call.handles)
             /\ \A i \in 1..Len(call.handles) :
                   IF i \in Cached THEN call'.handles[i].status # "open"
                   ELSE call'.handles[i] = call.handles[i]

\* C29: for any sequence of xr_open_cached and xr_close_cache calls, a path is
\* opened only on its first request since the last close, later requests
\* return the same handle without reopening; after xr_close_cache every dataset
\* opened since the previous close has been closed (close() has been called on
\* it) and the cache is empty, so a later request reopens the file.
C29_CacheLifecycle == []CacheSound /\ [][CacheCall]_vars

\* A path was requested twice, closed with the other path, and requested
\* again: it is open under a new handle and its first dataset is closed.
C29_Witness ==
    /\ call.at = "cache" /\ call.op = "open" /\ call.n = MaxCacheCalls
    /\ Len(call.handles) = 3
    /\ call.handles[1].path = call.path /\ call.handles[1].status = "closed"
    /\ call.handles[2].status = "closed" /\ call.handles[2].path # call.path
    /\ call.ret = 3 /\ call.cache[call.path] = 3

\* The alert the rule loop examines in a step, and whether it matches.
AlertPass == call.at = "rules" /\ call'.j = call.j + 1

AlertId == make_alert_id(call.feat, AlertRules[call.j], call.feat.depth)

AlertMatched == compare(call.feat.depth, AlertRules[call.j].op, AlertRules[call.j].value)

\* The step tried at least one channel.
AlertDispatched == AlertPass /\ call'.pass.tried # <<>>

\* A run with dedupe enabled starts from the ids of a readable dedupe file.
DedupeLoaded == call.at = "exit" /\ call'.at = "features" /\ call'.dedupe_enabled /\ call'.dedupe_path # "" /\ call.file.kind = "json" => call'.sent_map = call.file.state.sent

\* An alert whose id is in the sent map is not dispatched.
DedupeSkips == AlertPass /\ call.dedupe_enabled /\ AlertMatched /\ AlertId \in call.sent_map => call'.pass.tried = <<>> /\ call'.pass.delivered = 0 /\ call'.sent_map = call.sent_map

\* In send mode the id is recorded with the attempt, delivered or not.
DedupeRecords == AlertDispatched /\ call.dedupe_enabled => ~call.dry_run /\ AlertId \in call'.sent_map /\ call'.sent_map = call.sent_map \cup {AlertId}

\* A dry run tries no channel and adds no id to the sent map or the file.
DryRunSilent == call.dry_run /\ call.at # "exit" => call'.pass.tried = <<>> /\ call'.sent_map = call.sent_map /\ call'.file.state.sent \subseteq call.file.state.sent

AlertDedupeStep == DedupeLoaded /\ DedupeSkips /\ DedupeRecords /\ DryRunSilent

\* C30: with dedupe enabled an alert whose id is in the sent map, loaded
\* from the dedupe file of an earlier run or recorded for an earlier
\* feature of the same run, is not dispatched; in send mode the id of an
\* alert is recorded once its channels were tried, whether or not a
\* delivery succeeded; a dry run sends nothing and records no id.
C30_AlertDedupe == [][AlertDedupeStep]_vars

\* A second run skips an alert that the first run recorded in the file.
C30_Witness == call.run = 2 /\ call.dedupe_enabled /\ ~call.dry_run /\ call.pass.out = "skipped_dedupe" /\ call.pass.id \in call.file.state.sent /\ call.nfeat = 1

\* An alert is recorded although no delivery succeeded.
C30_WitnessFailed == call.dedupe_enabled /\ call.pass.out = "dispatched" /\ call.pass.delivered = 0 /\ call.pass.id \in call.sent_map

\* An alert is skipped for an earlier feature of the same run.
C30_WitnessSameRun == call.run = 1 /\ call.file.state.sent = {} /\ call.nfeat = 2 /\ call.pass.out = "skipped_dedupe"

\* A dry run meets a deliverable alert on a file that holds other ids.
C30_WitnessDryRun == call.run = 2 /\ call.dry_run /\ call.pass.out = "dry_run" /\ call.file.state.sent # {} /\ call.pass.id \notin call.file.state.sent

====
